---- MODULE Spec2Model ----
(***************************************************************************)
(* A model of solc's command-line resolver, CommandLineParser::parse, and  *)
(* of the sub-parsers it calls (parseCombinedJsonOption,                   *)
(* parseInputPathsAndRemappings, parseLibraryOption).                      *)
(*                                                                         *)
(* One behaviour is one run of parse on one command line.  The command     *)
(* line (cmdline) is fixed in the initial state; pc is the position of     *)
(* parse in its own code, and every action is one block of that code.      *)
(* Strings are TLA+ strings: option values are split, searched and         *)
(* concatenated character by character, as the code does it.               *)
(***************************************************************************)
EXTENDS Integers, Sequences, FiniteSets, TLC

VARIABLES
    cmdline,      \* the command line given to parse: argv and the file system it probes
    m_args,       \* po::variables_map filled by po::store
    m_options,    \* the CommandLineOptions under construction
    m_hasOutput,  \* set by sout() and serr()
    m_sout,       \* what was written to sout(), a sequence of strings
    m_serr,       \* what was written to serr(), a sequence of lines
    libIdx,       \* index of the next --libraries argument to hand to parseLibraryOption
    pc,           \* the block of parse that runs next (or that returned)
    result        \* "running", or how parse ended: "success", "failure", "exit0"

vars == <<cmdline, m_args, m_options, m_hasOutput, m_sout, m_serr, libIdx, pc, result>>

(***************************************************************************)
(* Option names (CommandLineParser.cpp, lines 52-180).                     *)
(***************************************************************************)
\* The names that parse tests in several places; a name without a definition here
\* is written as the literal its g_str constant holds.
g_strAbi == "abi"
g_strAsm == "asm"
g_strBinary == "bin"
g_strBinaryRuntime == "bin-runtime"
g_strCombinedJson == "combined-json"
g_strEVM == "evm"
g_strEVMVersion == "evm-version"
g_strEwasm == "ewasm"
g_strGas == "gas"
g_strHelp == "help"
g_strImportAst == "import-ast"
g_strInputFile == "input-file"
g_strYul == "yul"
g_strYulDialect == "yul-dialect"
g_strLibraries == "libraries"
g_strLink == "link"
g_strMachine == "machine"
g_strMetadataHash == "metadata-hash"
g_strModelCheckerContracts == "model-checker-contracts"
g_strModelCheckerEngine == "model-checker-engine"
g_strModelCheckerTargets == "model-checker-targets"
g_strNoOptimizeYul == "no-optimize-yul"
g_strOpcodes == "opcodes"
g_strOptimize == "optimize"
g_strYulOptimizations == "yul-optimizations"
g_strOutputDir == "output-dir"
g_strRevertStrings == "revert-strings"
g_strStopAfter == "stop-after"
g_strStandardJSON == "standard-json"
g_strStrictAssembly == "strict-assembly"
g_strVersion == "version"
g_strColor == "color"
g_strNoColor == "no-color"

\* Possible arguments to --combined-json.
g_combinedJsonArgs ==
    { g_strAbi, g_strAsm, "ast", g_strBinary, g_strBinaryRuntime, "compact-format",
      "function-debug", "function-debug-runtime", "generated-sources",
      "generated-sources-runtime", "interface", "metadata", "userdoc",
      "devdoc", g_strOpcodes, "hashes", "srcmap",
      "srcmap-runtime", "storage-layout" }

\* Possible arguments to --revert-strings: revertStringsToString of the four policies.
g_revertStringsArgs == { "default", "strip", "debug", "verboseDebug" }

\* Possible arguments to --metadata-hash.
g_metadataHashArgs == { "ipfs", "swarm", "none" }

(***************************************************************************)
(* Strings, character by character.                                        *)
(***************************************************************************)
CharAt(s, i) == SubSeq(s, i, i)

\* std::string::find(c): the first position of character c in s, 0 when there is none.
Find(s, c) ==
    LET hits == { i \in 1..Len(s) : CharAt(s, i) = c }
    IN  IF hits = {} THEN 0 ELSE CHOOSE i \in hits : \A j \in hits : i <= j

\* std::string::rfind(c): the last position of character c in s, 0 when there is none.
RFind(s, c) ==
    LET hits == { i \in 1..Len(s) : CharAt(s, i) = c }
    IN  IF hits = {} THEN 0 ELSE CHOOSE i \in hits : \A j \in hits : i >= j

\* Whether sub occurs in s.
Contains(s, sub) ==
    \E i \in 1..(Len(s) - Len(sub) + 1) : SubSeq(s, i, i + Len(sub) - 1) = sub

\* The characters boost::is_space accepts in the classic locale.
SpaceChars == { " ", "\t", "\n", "\r" }

IsSpace(c) == c \in SpaceChars

\* The k-th smallest element of a finite set of integers.
Kth(P, k) == CHOOSE x \in P : Cardinality({ y \in P : y < x }) = k - 1

\* The positions that bound the tokens of s: before its first character, every
\* separator, and after its last character.
TokenBounds(s, seps) ==
    { 0, Len(s) + 1 } \cup { i \in 1..Len(s) : CharAt(s, i) \in seps }

\* boost::split(result, s, is_any_of(seps)) without token compression: every
\* separator ends a token, so n separators give n + 1 tokens, some possibly empty.
Split(s, seps) ==
    LET B == TokenBounds(s, seps)
    IN  [ k \in 1..(Cardinality(B) - 1) |-> SubSeq(s, Kth(B, k) + 1, Kth(B, k + 1) - 1) ]

\* boost::split with token_compress_on: a run of adjacent separators counts as one,
\* so the empty tokens between two adjacent separators are not produced.
SplitCompress(s, seps) ==
    LET B == TokenBounds(s, seps)
        between == [ k \in 1..(Cardinality(B) - 1) |-> << Kth(B, k), Kth(B, k + 1) >> ]
        kept == SelectSeq(between,
                          LAMBDA b : ~(b[1] >= 1 /\ b[2] <= Len(s) /\ b[2] = b[1] + 1))
    IN  [ k \in 1..Len(kept) |-> SubSeq(s, kept[k][1] + 1, kept[k][2] - 1) ]

\* boost::trim: s without its leading and trailing white space.
Trim(s) ==
    LET keep == { i \in 1..Len(s) : ~IsSpace(CharAt(s, i)) }
    IN  IF keep = {} THEN ""
        ELSE SubSeq(s, CHOOSE i \in keep : \A j \in keep : i <= j,
                       CHOOSE i \in keep : \A j \in keep : i >= j)

\* boost::algorithm::join of the elements of a sequence of strings.
RECURSIVE Join(_, _)
Join(names, sep) ==
    IF Len(names) = 0 THEN ""
    ELSE IF Len(names) = 1 THEN names[1]
    ELSE names[1] \o sep \o Join(Tail(names), sep)

Range(f) == { f[i] : i \in DOMAIN f }

(***************************************************************************)
(* The command line and boost::program_options' variables_map.             *)
(***************************************************************************)
\* The options declared without a value (lines 496-751).
FlagOptions ==
    { g_strHelp, g_strVersion, "license", "ignore-missing", "error-recovery",
      "overwrite", "experimental-via-ir", g_strStandardJSON, g_strLink, "assemble",
      g_strYul, g_strStrictAssembly, g_strImportAst, "pretty-json", g_strColor,
      g_strNoColor, "error-codes", "ast-compact-json", g_strAsm, "asm-json",
      g_strOpcodes, g_strBinary, g_strBinaryRuntime, g_strAbi, "ir", "ir-optimized",
      g_strEwasm, "hashes", "userdoc", "devdoc", "metadata",
      "storage-layout", g_strGas, "metadata-literal", g_strOptimize, "optimize-yul",
      g_strNoOptimizeYul }

\* The options declared with po::value<...>() (lines 496-754); a value is kept as the
\* sequence of the values given, empty when the option is absent.
ValuedOptions ==
    { "base-path", "allow-paths", g_strOutputDir, g_strEVMVersion, g_strRevertStrings,
      g_strStopAfter, g_strMachine, g_strYulDialect, g_strLibraries, g_strCombinedJson,
      g_strMetadataHash, "optimize-runs", g_strYulOptimizations,
      g_strModelCheckerContracts, g_strModelCheckerEngine, g_strModelCheckerTargets,
      "model-checker-timeout", g_strInputFile }

\* EVMVersion{}.name(), the default_value of --evm-version (line 538).
DefaultEVMVersion == "berlin"

\* The default_value of --optimize-runs (line 702).
DefaultOptimizeRuns == 200

\* The options declared with a default_value (lines 538, 702, 726, 733, 738):
\* po::store enters them into the map when the command line does not give them.
DefaultValues ==
    [ n \in ValuedOptions |->
        CASE n = g_strEVMVersion -> <<DefaultEVMVersion>>
          [] n = "optimize-runs" -> <<DefaultOptimizeRuns>>
          [] n = g_strModelCheckerContracts -> <<"default">>
          [] n = g_strModelCheckerEngine -> <<"none">>
          [] n = g_strModelCheckerTargets -> <<"default">>
          [] OTHER -> <<>> ]

\* A variables_map before po::store.
EmptyArgs == [ flags |-> {}, val |-> [ n \in ValuedOptions |-> <<>> ] ]

\* po::store(cmdLineParser.run(), m_args): the options given, and the declared
\* default of every option that has one and was not given.
Store(given) ==
    [ flags |-> given.flags,
      val |-> [ n \in ValuedOptions |->
                  IF given.val[n] # <<>> THEN given.val[n] ELSE DefaultValues[n] ] ]

\* m_args.count(name): 1 when the map holds the option, else 0.
Count(args, name) ==
    IF name \in ValuedOptions
    THEN (IF args.val[name] # <<>> THEN 1 ELSE 0)
    ELSE (IF name \in args.flags THEN 1 ELSE 0)

\* m_args[name].as<string>() (or as<unsigned>()): the value of a single-valued option.
As(args, name) == args.val[name][1]

\* _argc == 1: nothing follows the program name.
NoArguments(given) == given.flags = {} /\ \A n \in ValuedOptions : given.val[n] = <<>>

(***************************************************************************)
(* CommandLineOptions.                                                     *)
(***************************************************************************)
\* A default-constructed CommandLineOptions; std::optional fields are sequences of
\* at most one element.
DefaultOptions ==
    [ sourceFilePaths |-> {},
      standardJsonInputFile |-> <<>>,
      remappings |-> <<>>,
      addStdin |-> FALSE,
      basePath |-> "",
      allowedDirectories |-> {},
      ignoreMissingInputFiles |-> FALSE,
      errorRecovery |-> FALSE,
      outputDir |-> <<>>,
      overwriteFiles |-> FALSE,
      evmVersion |-> DefaultEVMVersion,
      experimentalViaIR |-> FALSE,
      revertStrings |-> "default",
      stopAfter |-> <<>>,
      inputMode |-> "Compiler",
      targetMachine |-> "EVM",
      inputAssemblyLanguage |-> "Assembly",
      libraries |-> {},
      prettyJson |-> FALSE,
      coloredOutput |-> <<>>,
      withErrorIds |-> FALSE,
      selectedOutputs |-> {},
      estimateGas |-> FALSE,
      combinedJsonRequests |-> <<>>,
      metadataHash |-> "IPFS",
      metadataLiteral |-> FALSE,
      optimize |-> FALSE,
      expectedExecutionsPerDeployment |-> DefaultOptimizeRuns,
      noOptimizeYul |-> FALSE,
      yulOptimiserSteps |-> <<>>,
      initializeModelChecker |-> FALSE,
      modelCheckerSettings |->
          [ contracts |-> "default", engine |-> "none", targets |-> "default",
            timeout |-> <<>> ] ]

\* A variant of LibraryCount that finds no name.
LibraryCountNone(libraries, name) == 0

\* std::map<string, h160>: a set of entries with at most one entry per name.
LibraryCount(libraries, name) ==
    IF \E e \in libraries : e.name = name THEN 1 ELSE 0

\* libraries[name] = address: the entry of that name is created or overwritten.
LibraryPut(libraries, name, address) ==
    { e \in libraries : e.name # name } \cup { [ name |-> name, address |-> address ] }

(***************************************************************************)
(* Ordering of strings, for the containers that keep them sorted.          *)
(***************************************************************************)
\* The characters of the model's strings in ASCII order.
Alphabet == " ,-./0123456789:=ABCDEFGHIJKLMNOPQRSTUVWXYZ_abcdefghijklmnopqrstuvwxyz"

CharCode(c) == Find(Alphabet, c)

\* std::string's operator<.
StrLess(a, b) ==
    \/ /\ Len(a) < Len(b)
       /\ SubSeq(b, 1, Len(a)) = a
    \/ \E i \in 1..Len(a) :
          /\ i <= Len(b)
          /\ SubSeq(a, 1, i - 1) = SubSeq(b, 1, i - 1)
          /\ CharCode(CharAt(a, i)) < CharCode(CharAt(b, i))

\* The elements of a std::set<string> in iteration order.
RECURSIVE Sorted(_)
Sorted(S) ==
    IF S = {} THEN <<>>
    ELSE LET least == CHOOSE x \in S : \A y \in S \ {x} : StrLess(x, y)
         IN  <<least>> \o Sorted(S \ {least})

(***************************************************************************)
(* The helpers of CommandLineParser.                                       *)
(***************************************************************************)
\* countEnabledOptions (lines 1210-1217).
RECURSIVE countEnabledOptions(_, _)
countEnabledOptions(args, optionNames) ==
    IF Len(optionNames) = 0 THEN 0
    ELSE Count(args, optionNames[1]) + countEnabledOptions(args, Tail(optionNames))

\* The default of joinOptionNames' _separator parameter.
DefaultSeparator == ", "

\* joinOptionNames (lines 1219-1225).
joinOptionNames(optionNames, separator) ==
    Join([ i \in 1..Len(optionNames) |-> "--" \o optionNames[i] ], separator)

\* checkMutuallyExclusive (lines 248-257): the line it writes when both are present.
MutuallyExclusiveLine(optionA, optionB) ==
    "Option " \o optionA \o " and " \o optionB \o " are mutually exclusive."

checkMutuallyExclusive(args, optionA, optionB) ==
    ~(Count(args, optionA) > 0 /\ Count(args, optionB) > 0)

\* conflictingWithStopAfter (lines 777-786).
conflictingWithStopAfter ==
    << g_strBinary, "ir", "ir-optimized", g_strEwasm, g_strGas, g_strAsm,
       "asm-json", g_strOpcodes >>

\* exclusiveModes (lines 899-906).
exclusiveModes ==
    << g_strStandardJSON, g_strLink, "assemble", g_strStrictAssembly, g_strYul,
       g_strImportAst >>

\* The 15 output components read into selectedOutputs (lines 849-863).
outputComponents ==
    { "ast-compact-json", g_strAsm, "asm-json", g_strOpcodes, g_strBinary,
      g_strBinaryRuntime, g_strAbi, "ir", "ir-optimized", g_strEwasm,
      "hashes", "userdoc", "devdoc", "metadata",
      "storage-layout" }

\* The texts written by the early exits (lines 228-245 and 803).
HelpText == "solc, the Solidity commandline compiler."

VersionText == "solc, the solidity compiler commandline interface"

LicenseText == "Most of the code is licensed under GPLv3"

(***************************************************************************)
(* parseCombinedJsonOption (lines 1175-1208).                              *)
(***************************************************************************)
\* A variant of CombinedJsonRequestsOf that reads binary from the bin-runtime token.
CombinedJsonRequestsOfRuntime(requests) ==
    [ abi |-> g_strAbi \in requests,
      metadata |-> "metadata" \in requests,
      binary |-> g_strBinaryRuntime \in requests,
      binaryRuntime |-> g_strBinaryRuntime \in requests,
      opcodes |-> g_strOpcodes \in requests,
      asm_ |-> g_strAsm \in requests,
      storageLayout |-> "storage-layout" \in requests,
      generatedSources |-> "generated-sources" \in requests,
      generatedSourcesRuntime |-> "generated-sources-runtime" \in requests,
      srcMap |-> "srcmap" \in requests,
      srcMapRuntime |-> "srcmap-runtime" \in requests,
      funDebug |-> "function-debug" \in requests,
      funDebugRuntime |-> "function-debug-runtime" \in requests,
      signatureHashes |-> "hashes" \in requests,
      natspecDev |-> "devdoc" \in requests,
      natspecUser |-> "userdoc" \in requests,
      ast |-> "ast" \in requests ]

\* The CombinedJsonRequests built from the set of requested names (lines 1188-1205).
CombinedJsonRequestsOf(requests) ==
    [ abi |-> g_strAbi \in requests,
      metadata |-> "metadata" \in requests,
      binary |-> g_strBinary \in requests,
      binaryRuntime |-> g_strBinaryRuntime \in requests,
      opcodes |-> g_strOpcodes \in requests,
      asm_ |-> g_strAsm \in requests,
      storageLayout |-> "storage-layout" \in requests,
      generatedSources |-> "generated-sources" \in requests,
      generatedSourcesRuntime |-> "generated-sources-runtime" \in requests,
      srcMap |-> "srcmap" \in requests,
      srcMapRuntime |-> "srcmap-runtime" \in requests,
      funDebug |-> "function-debug" \in requests,
      funDebugRuntime |-> "function-debug-runtime" \in requests,
      signatureHashes |-> "hashes" \in requests,
      natspecDev |-> "devdoc" \in requests,
      natspecUser |-> "userdoc" \in requests,
      ast |-> "ast" \in requests ]

\* The set<string> that boost::split fills from the option's value (lines 1180-1181).
CombinedJsonItems(args) == Range(Split(As(args, g_strCombinedJson), {","}))

\* A variant of InvalidCombinedJsonItems that skips the empty items of the list.
InvalidCombinedJsonItemsNonEmpty(args) ==
    SelectSeq(Sorted(CombinedJsonItems(args)),
              LAMBDA item : item # "" /\ item \notin g_combinedJsonArgs)

\* The items outside the vocabulary, in the set's iteration order (lines 1181-1182).
InvalidCombinedJsonItems(args) ==
    SelectSeq(Sorted(CombinedJsonItems(args)), LAMBDA item : item \notin g_combinedJsonArgs)

\* A variant of parseCombinedJsonOption that constructs the requests before it looks
\* for the option.
parseCombinedJsonOptionEager(args, options) ==
    IF Count(args, g_strCombinedJson) = 0
    THEN [ ok |-> TRUE, serr |-> <<>>,
           combinedJsonRequests |-> << CombinedJsonRequestsOf({}) >> ]
    ELSE IF InvalidCombinedJsonItems(args) # <<>>
    THEN [ ok |-> FALSE,
           serr |-> << "Invalid option to --" \o g_strCombinedJson \o ": "
                         \o InvalidCombinedJsonItems(args)[1] >>,
           combinedJsonRequests |-> options.combinedJsonRequests ]
    ELSE [ ok |-> TRUE, serr |-> <<>>,
           combinedJsonRequests |-> << CombinedJsonRequestsOf(CombinedJsonItems(args)) >> ]

\* What parseCombinedJsonOption returns, writes and leaves in combinedJsonRequests.
parseCombinedJsonOption(args, options) ==
    IF Count(args, g_strCombinedJson) = 0
    THEN [ ok |-> TRUE, serr |-> <<>>, combinedJsonRequests |-> options.combinedJsonRequests ]
    ELSE IF InvalidCombinedJsonItems(args) # <<>>
    THEN [ ok |-> FALSE,
           serr |-> << "Invalid option to --" \o g_strCombinedJson \o ": "
                         \o InvalidCombinedJsonItems(args)[1] >>,
           combinedJsonRequests |-> options.combinedJsonRequests ]
    ELSE [ ok |-> TRUE, serr |-> <<>>,
           combinedJsonRequests |-> << CombinedJsonRequestsOf(CombinedJsonItems(args)) >> ]

(***************************************************************************)
(* Addresses: the checksum and the hex decoding parseLibraryOption calls   *)
(* (passesAddressChecksum, getChecksummedAddress, fromHex, h160).          *)
(***************************************************************************)
HexDigits == "0123456789abcdef"

UpperLetters == "ABCDEFGHIJKLMNOPQRSTUVWXYZ"

LowerLetters == "abcdefghijklmnopqrstuvwxyz"

ToLowerChar(c) ==
    IF Find(UpperLetters, c) > 0 THEN CharAt(LowerLetters, Find(UpperLetters, c)) ELSE c

ToUpperChar(c) ==
    IF Find(LowerLetters, c) > 0 THEN CharAt(UpperLetters, Find(LowerLetters, c)) ELSE c

RECURSIVE ToLower(_)
ToLower(s) ==
    IF Len(s) = 0 THEN ""
    ELSE IF Len(s) = 1 THEN ToLowerChar(s)
    ELSE ToLower(SubSeq(s, 1, Len(s) \div 2)) \o ToLower(SubSeq(s, Len(s) \div 2 + 1, Len(s)))

\* The value of one hex digit, of either case.
HexVal(c) == Find(HexDigits, ToLowerChar(c)) - 1

\* The i-th nibble of the digest the checksum is derived from.  The code takes it from
\* keccak256 of the lowercase digits; the model uses a small deterministic mix of the
\* same digits, which keeps what matters here: the casing is a function of the
\* lowercase digits alone.
DigestNibble(lower, i) ==
    (HexVal(CharAt(lower, i)) * 5 + HexVal(CharAt(lower, (i % Len(lower)) + 1)) * 3 + i) % 16

\* getChecksummedAddress, without the 0x prefix: every letter is upper case iff the
\* digest's nibble at its position is 8 or more.
RECURSIVE ChecksumCased(_, _, _)
ChecksumCased(lower, i, j) ==
    IF i > j THEN ""
    ELSE IF i = j
    THEN (IF DigestNibble(lower, i) >= 8 THEN ToUpperChar(CharAt(lower, i))
                                        ELSE CharAt(lower, i))
    ELSE ChecksumCased(lower, i, (i + j) \div 2) \o ChecksumCased(lower, (i + j) \div 2 + 1, j)

getChecksummedAddress(addr) == ChecksumCased(ToLower(addr), 1, Len(addr))

\* passesAddressChecksum(addr, strict): the digits carry the casing of the checksum.
passesAddressChecksum(addr, strict) ==
    /\ \A i \in 1..Len(addr) : HexVal(CharAt(addr, i)) >= 0
    /\ addr = getChecksummedAddress(addr)

\* fromHex: the bytes that the hex digits encode, two digits a byte.
fromHex(hex) ==
    IF \E i \in 1..Len(hex) : HexVal(CharAt(hex, i)) < 0 THEN <<>>
    ELSE [ i \in 1..(Len(hex) \div 2) |->
             HexVal(CharAt(hex, 2 * i - 1)) * 16 + HexVal(CharAt(hex, 2 * i)) ]

\* The width of h160 in bytes.
AddressBytes == 20

\* h160(bytes, AlignRight): the bytes right-aligned in 20, zero-filled on the left.
h160(bytes) ==
    [ i \in 1..AddressBytes |->
        IF i + Len(bytes) - AddressBytes >= 1 /\ i + Len(bytes) - AddressBytes <= Len(bytes)
        THEN bytes[i + Len(bytes) - AddressBytes] ELSE 0 ]

\* h160(): the zero address.
ZeroAddress == [ i \in 1..AddressBytes |-> 0 ]

(***************************************************************************)
(* parseLibraryOption (lines 377-470).                                     *)
(***************************************************************************)
\* fs::is_regular_file(_input) on the command line's file system; a probe that throws
\* (lines 386-393) leaves data = _input like a probe that answers no.
IsRegularFile(files, path) == \E f \in files : f.path = path /\ f.status = "regular"

\* readFileAsString(_input).
ReadFileAsString(files, path) ==
    (CHOOSE f \in files : f.path = path /\ f.status = "regular").content

\* The text that is split into specifiers (lines 380-393).
LibraryData(files, input) ==
    IF IsRegularFile(files, input) THEN ReadFileAsString(files, input) ELSE input

\* The number of hex digits an address must have (line 448).
AddressHexLength == 40

\* A variant of LibrarySeparator that takes the first '=' and the first ':'.
LibrarySeparatorFirst(lib) ==
    IF Find(lib, "=") # 0 THEN Find(lib, "=") ELSE Find(lib, ":")

\* The position of the separator in one specifier (lines 402-414): the last '=', else
\* the last ':', else 0.
LibrarySeparator(lib) ==
    IF RFind(lib, "=") # 0 THEN RFind(lib, "=") ELSE RFind(lib, ":")

\* A variant of ChecksumMismatch that accepts every casing.
ChecksumNotChecked(addrString) == FALSE

\* Line 453: the digits do not pass the checksum test.
ChecksumMismatch(addrString) == ~passesAddressChecksum(addrString, FALSE)

\* A variant of InvalidAddress that forgets the zero address.
InvalidAddressTooLong(binAddr, address) == Len(binAddr) > AddressBytes

\* Line 461: the decoded address is too long or is the zero address.
InvalidAddress(binAddr, address) == Len(binAddr) > AddressBytes \/ address = ZeroAddress

\* What the map holds after a specifier was accepted (line 466).
InsertLibrary(libraries, libName, address) == LibraryPut(libraries, libName, address)

\* One non-empty specifier (lines 400-466): whether it is accepted, what is written
\* to serr() and the libraries afterwards.
ParseLibrarySpecifier(lib, libraries) ==
    LET separator == LibrarySeparator(lib)
        isSeparatorEqualSign == RFind(lib, "=") # 0
        libName == Trim(SubSeq(lib, 1, separator - 1))
        addrString0 == Trim(SubSeq(lib, separator + 1, Len(lib)))
        addrString == SubSeq(addrString0, 3, Len(addrString0))
        binAddr == fromHex(addrString)
        address == h160(binAddr)
        Rejected(lines) == [ ok |-> FALSE, serr |-> lines, libraries |-> libraries ]
    IN  IF separator = 0
        THEN Rejected(<< "Equal sign separator missing in library address specifier \""
                          \o lib \o "\"" >>)
        ELSE IF isSeparatorEqualSign /\ RFind(lib, "=") # Find(lib, "=")
        THEN Rejected(<< "Only one equal sign \"=\" is allowed in the address string \""
                          \o lib \o "\"." >>)
        ELSE IF LibraryCount(libraries, libName) > 0
        THEN Rejected(<< "Address specified more than once for library \""
                          \o libName \o "\"." >>)
        ELSE IF addrString0 = ""
        THEN Rejected(<< "Empty address provided for library \"" \o libName \o "\".",
                         "Note that there should not be any whitespace after the "
                          \o (IF isSeparatorEqualSign THEN "equal sign" ELSE "colon")
                          \o "." >>)
        ELSE IF SubSeq(addrString0, 1, 2) # "0x"
        THEN Rejected(<< "The address " \o addrString0 \o " is not prefixed with \"0x\".",
                         "Note that the address must be prefixed with \"0x\"." >>)
        ELSE IF Len(addrString) # AddressHexLength
        THEN Rejected(<< "Invalid length for address for library \"" \o libName
                          \o "\": " \o ToString(Len(addrString))
                          \o " instead of 40 characters." >>)
        ELSE IF ChecksumMismatch(addrString)
        THEN Rejected(<< "Invalid checksum on address for library \"" \o libName
                          \o "\": " \o addrString,
                         "The correct checksum is " \o getChecksummedAddress(addrString) >>)
        ELSE IF InvalidAddress(binAddr, address)
        THEN Rejected(<< "Invalid address for library \"" \o libName \o "\": "
                          \o addrString >>)
        ELSE [ ok |-> TRUE, serr |-> <<>>,
               libraries |-> InsertLibrary(libraries, libName, address) ]

\* The loop over the specifiers (lines 397-467): the first rejected one ends it.
RECURSIVE ParseLibrarySpecifiers(_, _)
ParseLibrarySpecifiers(libs, libraries) ==
    IF Len(libs) = 0 THEN [ ok |-> TRUE, serr |-> <<>>, libraries |-> libraries ]
    ELSE IF libs[1] = "" THEN ParseLibrarySpecifiers(Tail(libs), libraries)
    ELSE LET one == ParseLibrarySpecifier(libs[1], libraries)
         IN  IF one.ok THEN ParseLibrarySpecifiers(Tail(libs), one.libraries) ELSE one

\* The specifiers of one --libraries argument (lines 395-396).
LibrarySpecifiers(files, input) ==
    SplitCompress(LibraryData(files, input), SpaceChars \cup {","})

\* A variant of parseLibraryOption that gives back the mapping it was called with
\* when a specifier of the argument is rejected.
parseLibraryOptionUndone(files, input, libraries) ==
    LET r == ParseLibrarySpecifiers(LibrarySpecifiers(files, input), libraries)
    IN  IF r.ok THEN r ELSE [ r EXCEPT !.libraries = libraries ]

\* parseLibraryOption (lines 377-470) on one --libraries argument.
parseLibraryOption(files, input, libraries) ==
    ParseLibrarySpecifiers(LibrarySpecifiers(files, input), libraries)

(***************************************************************************)
(* parseInputPathsAndRemappings (lines 348-375).                           *)
(***************************************************************************)
\* ImportRemapper::parseRemapping of context:prefix=target: the context ends at the
\* first ':' before the first '=', and a remapping without a prefix is none.
parseRemapping(remapping) ==
    LET eq == Find(remapping, "=")
        colon == Find(SubSeq(remapping, 1, eq - 1), ":")
        r == [ context |-> IF colon = 0 THEN "" ELSE SubSeq(remapping, 1, colon - 1),
               prefix |-> SubSeq(remapping, colon + 1, eq - 1),
               target |-> SubSeq(remapping, eq + 1, Len(remapping)) ]
    IN  IF eq = 0 \/ r.prefix = "" THEN <<>> ELSE <<r>>

\* boost::filesystem::path::filename(): what follows the last separator, and "." when
\* the path ends in a separator.
Filename(path) ==
    IF RFind(path, "/") = 0 THEN path
    ELSE IF RFind(path, "/") = Len(path) THEN (IF Len(path) = 1 THEN "/" ELSE ".")
    ELSE SubSeq(path, RFind(path, "/") + 1, Len(path))

\* boost::filesystem::path::remove_filename(): the path becomes its parent_path(),
\* which is what precedes the last separator (the root directory is its own start).
RECURSIVE StripTrailingSeparators(_)
StripTrailingSeparators(path) ==
    IF Len(path) > 1 /\ CharAt(path, Len(path)) = "/"
    THEN StripTrailingSeparators(SubSeq(path, 1, Len(path) - 1))
    ELSE path

RemoveFilename(path) ==
    IF RFind(path, "/") = 0 THEN ""
    ELSE IF RFind(path, "/") = 1 THEN (IF Len(path) = 1 THEN "" ELSE "/")
    ELSE StripTrailingSeparators(SubSeq(path, 1, RFind(path, "/") - 1))

\* A variant of ClassifyInputPath that treats a remapping target as lines 882-883
\* treat a path of --allow-paths: only a file name "." is removed.
ClassifyInputPathKeepingFilename(path, options) ==
    LET eq == Find(path, "=")
        r == parseRemapping(path)
        remappingTarget == SubSeq(path, eq + 1, Len(path))
    IN  IF eq # 0
        THEN IF r # <<>>
             THEN [ ok |-> TRUE, serr |-> <<>>,
                    options |->
                      [ options EXCEPT
                          !.remappings = Append(@, r[1]),
                          !.allowedDirectories =
                              @ \cup { IF Filename(remappingTarget) = "."
                                       THEN RemoveFilename(remappingTarget)
                                       ELSE remappingTarget } ] ]
             ELSE [ ok |-> FALSE,
                    serr |-> << "Invalid remapping: \"" \o path \o "\"." >>,
                    options |-> options ]
        ELSE IF path = "-"
        THEN [ ok |-> TRUE, serr |-> <<>>, options |-> [ options EXCEPT !.addStdin = TRUE ] ]
        ELSE [ ok |-> TRUE, serr |-> <<>>,
               options |-> [ options EXCEPT !.sourceFilePaths = @ \cup { path } ] ]

\* One positional token (lines 354-371): whether it is accepted, what is written to
\* serr() and the options afterwards.
ClassifyInputPath(path, options) ==
    LET eq == Find(path, "=")
        r == parseRemapping(path)
        remappingTarget == SubSeq(path, eq + 1, Len(path))
    IN  IF eq # 0
        THEN IF r # <<>>
             THEN [ ok |-> TRUE, serr |-> <<>>,
                    options |->
                      [ options EXCEPT
                          !.remappings = Append(@, r[1]),
                          !.allowedDirectories = @ \cup { RemoveFilename(remappingTarget) } ] ]
             ELSE [ ok |-> FALSE,
                    serr |-> << "Invalid remapping: \"" \o path \o "\"." >>,
                    options |-> options ]
        ELSE IF path = "-"
        THEN [ ok |-> TRUE, serr |-> <<>>, options |-> [ options EXCEPT !.addStdin = TRUE ] ]
        ELSE [ ok |-> TRUE, serr |-> <<>>,
               options |-> [ options EXCEPT !.sourceFilePaths = @ \cup { path } ] ]

\* The loop over the positional tokens (lines 352-372).
RECURSIVE ClassifyInputPaths(_, _)
ClassifyInputPaths(paths, options) ==
    IF Len(paths) = 0 THEN [ ok |-> TRUE, serr |-> <<>>, options |-> options ]
    ELSE LET one == ClassifyInputPath(paths[1], options)
         IN  IF one.ok THEN ClassifyInputPaths(Tail(paths), one.options) ELSE one

parseInputPathsAndRemappings(args, options) ==
    ClassifyInputPaths(
        args.val[g_strInputFile],
        [ options EXCEPT !.ignoreMissingInputFiles = Count(args, "ignore-missing") > 0 ])

(***************************************************************************)
(* The oracles parse consults.                                             *)
(***************************************************************************)
\* EVMVersion::fromString: the names the help text of --evm-version lists.
EVMVersionNames ==
    { "homestead", "tangerineWhistle", "spuriousDragon", "byzantium", "constantinople",
      "petersburg", "istanbul", "berlin" }

\* revertStringsFromString: the policy of that name, if any.
revertStringsFromString(str) == IF str \in g_revertStringsArgs THEN <<str>> ELSE <<>>

\* ModelCheckerEngine::fromString: the names the value_name of the option lists.
ModelCheckerEngineNames == { "all", "bmc", "chc", "none" }

\* ModelCheckerTargets::fromString: "default" or a comma-separated list of targets.
ModelCheckerTargetNames ==
    { "constantCondition", "underflow", "overflow", "divByZero", "balance", "assert",
      "popEmptyArray", "outOfBounds" }

ModelCheckerTargetsValid(str) ==
    \/ str = "default"
    \/ \A t \in Range(Split(str, {","})) : t \in ModelCheckerTargetNames

\* ModelCheckerContracts::fromString: "default" or a comma-separated list of
\* <source>:<contract> pairs with neither part empty.
ModelCheckerContractsValid(str) ==
    \/ str = "default"
    \/ \A c \in Range(Split(str, {","})) :
          /\ Find(c, ":") > 1
          /\ Find(c, ":") < Len(c)

\* yul::OptimiserSuite::validateSequence: the message of the exception it throws, or
\* nothing for a sequence of step abbreviations with well-formed, unnested brackets.
RECURSIVE BracketsBalanced(_, _, _)
BracketsBalanced(steps, i, open) ==
    IF i > Len(steps) THEN ~open
    ELSE IF CharAt(steps, i) = "[" THEN ~open /\ BracketsBalanced(steps, i + 1, TRUE)
    ELSE IF CharAt(steps, i) = "]" THEN open /\ BracketsBalanced(steps, i + 1, FALSE)
    ELSE BracketsBalanced(steps, i + 1, open)

validateSequence(steps) ==
    IF \E i \in 1..Len(steps) :
          /\ Find(LowerLetters, CharAt(steps, i)) = 0
          /\ Find(UpperLetters, CharAt(steps, i)) = 0
          /\ CharAt(steps, i) \notin { " ", "\n", "[", "]" }
    THEN << "Invalid optimisation step abbreviation" >>
    ELSE IF ~BracketsBalanced(steps, 1, FALSE)
    THEN << "Unbalanced brackets" >>
    ELSE <<>>

\* OptimiserSettings::standard().runYulOptimiser and ::minimal().runYulOptimiser.
RunYulOptimiser(optimize, noOptimizeYul) == optimize /\ ~noOptimizeYul

(***************************************************************************)
(* CommandLineParser::parse (lines 472-1173), block by block.              *)
(***************************************************************************)
At(step) == pc = step /\ result = "running"

\* Control reaches the next block.
Goto(step) == pc' = step /\ UNCHANGED result

\* parse returns (or the process exits) in this block.
Return(how) == result' = how /\ UNCHANGED pc

\* A variant of Serr that leaves m_hasOutput as it is.
SerrUnflagged(lines) == m_serr' = m_serr \o lines /\ m_hasOutput' = m_hasOutput

\* serr() << ...: the lines are written and m_hasOutput is set (lines 43-47).
Serr(lines) == m_serr' = m_serr \o lines /\ m_hasOutput' = TRUE

\* sout() << ...: the text is written and m_hasOutput is set (lines 37-41).
Sout(texts) == m_sout' = m_sout \o texts /\ m_hasOutput' = TRUE

\* Lines 761-772: po::store fills m_args, or throws po::error on a command line the
\* tokenizer rejects.
Tokenize ==
    /\ At("tokenize")
    /\ UNCHANGED <<cmdline, m_options, m_sout, libIdx>>
    /\ IF cmdline.malformed
       THEN /\ Serr(<< "unrecognised option" >>)
            /\ Return("failure")
            /\ UNCHANGED m_args
       ELSE /\ m_args' = Store(cmdline)
            /\ Goto("checkColor")
            /\ UNCHANGED <<m_serr, m_hasOutput>>

\* Lines 774-775.
CheckColorExclusive ==
    /\ At("checkColor")
    /\ UNCHANGED <<cmdline, m_args, m_options, m_sout, libIdx>>
    /\ IF ~checkMutuallyExclusive(m_args, g_strColor, g_strNoColor)
       THEN /\ Serr(<< MutuallyExclusiveLine(g_strColor, g_strNoColor) >>)
            /\ Return("failure")
       ELSE /\ Goto("checkStopAfter")
            /\ UNCHANGED <<m_serr, m_hasOutput>>

\* A variant of StopAfterConflicts whose loop runs from the end of the list.
StopAfterConflictsBackwards(args) ==
    SelectSeq([ i \in 1..Len(conflictingWithStopAfter) |->
                  conflictingWithStopAfter[Len(conflictingWithStopAfter) + 1 - i] ],
              LAMBDA option : ~checkMutuallyExclusive(args, g_strStopAfter, option))

\* The options of conflictingWithStopAfter that fail the check, in list order.
StopAfterConflicts(args) ==
    SelectSeq(conflictingWithStopAfter,
              LAMBDA option : ~checkMutuallyExclusive(args, g_strStopAfter, option))

\* Lines 777-790: the loop returns at the first option that conflicts.
CheckStopAfterExclusive ==
    /\ At("checkStopAfter")
    /\ UNCHANGED <<cmdline, m_args, m_options, m_sout, libIdx>>
    /\ IF StopAfterConflicts(m_args) # <<>>
       THEN /\ Serr(<< MutuallyExclusiveLine(g_strStopAfter, StopAfterConflicts(m_args)[1]) >>)
            /\ Return("failure")
       ELSE /\ Goto("setColor")
            /\ UNCHANGED <<m_serr, m_hasOutput>>

\* Lines 792-799.
SetColoredOutput ==
    /\ At("setColor")
    /\ UNCHANGED <<cmdline, m_args, m_sout, m_serr, m_hasOutput, libIdx>>
    /\ m_options' =
         [ m_options EXCEPT
             !.coloredOutput =
                 IF Count(m_args, g_strColor) > 0 THEN <<TRUE>>
                 ELSE IF Count(m_args, g_strNoColor) > 0 THEN <<FALSE>>
                 ELSE @,
             !.withErrorIds = Count(m_args, "error-codes") > 0 ]
    /\ Goto("help")

\* Lines 801-805.
Help ==
    /\ At("help")
    /\ UNCHANGED <<cmdline, m_args, m_options, m_serr, libIdx>>
    /\ IF Count(m_args, g_strHelp) > 0 \/ (cmdline.interactive /\ NoArguments(cmdline))
       THEN /\ Sout(<< HelpText >>)
            /\ Return("failure")
       ELSE /\ Goto("version")
            /\ UNCHANGED <<m_sout, m_hasOutput>>

\* A variant of Version whose version() returns, so that parse goes on.
VersionFallsThrough ==
    /\ At("version")
    /\ UNCHANGED <<cmdline, m_args, m_options, m_serr, libIdx>>
    /\ IF Count(m_args, g_strVersion) > 0
       THEN /\ Sout(<< VersionText >>)
            /\ Goto("license")
       ELSE /\ Goto("license")
            /\ UNCHANGED <<m_sout, m_hasOutput>>

\* Lines 807-811 and version() (lines 228-237), which ends the process with exit(0).
Version ==
    /\ At("version")
    /\ UNCHANGED <<cmdline, m_args, m_options, m_serr, libIdx>>
    /\ IF Count(m_args, g_strVersion) > 0
       THEN /\ Sout(<< VersionText >>)
            /\ Return("exit0")
       ELSE /\ Goto("license")
            /\ UNCHANGED <<m_sout, m_hasOutput>>

\* Lines 813-817 and license() (lines 239-245), which ends the process with exit(0).
License ==
    /\ At("license")
    /\ UNCHANGED <<cmdline, m_args, m_options, m_serr, libIdx>>
    /\ IF Count(m_args, "license") > 0
       THEN /\ Sout(<< LicenseText >>)
            /\ Return("exit0")
       ELSE /\ Goto("revertStrings")
            /\ UNCHANGED <<m_sout, m_hasOutput>>

\* Lines 819-834.
RevertStrings ==
    /\ At("revertStrings")
    /\ UNCHANGED <<cmdline, m_args, m_sout, libIdx>>
    /\ IF Count(m_args, g_strRevertStrings) = 0
       THEN /\ Goto("combinedJson")
            /\ UNCHANGED <<m_options, m_serr, m_hasOutput>>
       ELSE LET revertStringsString == As(m_args, g_strRevertStrings)
                revertStrings == revertStringsFromString(revertStringsString)
            IN  IF revertStrings = <<>>
                THEN /\ Serr(<< "Invalid option for --" \o g_strRevertStrings \o ": "
                                 \o revertStringsString >>)
                     /\ Return("failure")
                     /\ UNCHANGED m_options
                ELSE IF revertStrings[1] = "verboseDebug"
                THEN /\ Serr(<< "Only \"default\", \"strip\" and \"debug\" are implemented for --"
                                 \o g_strRevertStrings \o " for now." >>)
                     /\ Return("failure")
                     /\ UNCHANGED m_options
                ELSE /\ m_options' = [ m_options EXCEPT !.revertStrings = revertStrings[1] ]
                     /\ Goto("combinedJson")
                     /\ UNCHANGED <<m_serr, m_hasOutput>>

\* Lines 836-837.
CombinedJson ==
    /\ At("combinedJson")
    /\ UNCHANGED <<cmdline, m_args, m_sout, libIdx>>
    /\ LET r == parseCombinedJsonOption(m_args, m_options)
       IN  /\ m_options' = [ m_options EXCEPT !.combinedJsonRequests = r.combinedJsonRequests ]
           /\ IF r.ok
              THEN /\ Goto("outputs")
                   /\ UNCHANGED <<m_serr, m_hasOutput>>
              ELSE /\ Serr(r.serr)
                   /\ Return("failure")

\* Lines 872-886: every path of --allow-paths, without the "." that a trailing
\* separator leaves as its file name.
AllowedPaths(args) ==
    IF Count(args, "allow-paths") = 0 THEN {}
    ELSE { IF Filename(path) = "." THEN RemoveFilename(path) ELSE path :
             path \in Range(Split(As(args, "allow-paths"), {","})) }

\* Lines 839-886.
OutputSelection ==
    /\ At("outputs")
    /\ UNCHANGED <<cmdline, m_args, m_sout, m_serr, m_hasOutput, libIdx>>
    /\ m_options' =
         [ m_options EXCEPT
             !.outputDir = IF Count(m_args, g_strOutputDir) > 0
                           THEN << As(m_args, g_strOutputDir) >> ELSE @,
             !.overwriteFiles = Count(m_args, "overwrite") > 0,
             !.prettyJson = Count(m_args, "pretty-json") > 0,
             !.selectedOutputs = { o \in outputComponents : Count(m_args, o) > 0 },
             !.estimateGas = Count(m_args, g_strGas) > 0,
             !.basePath = IF Count(m_args, "base-path") > 0
                          THEN As(m_args, "base-path") ELSE @,
             !.allowedDirectories = @ \cup AllowedPaths(m_args) ]
    /\ Goto("stopAfter")

\* Lines 888-897.
StopAfter ==
    /\ At("stopAfter")
    /\ UNCHANGED <<cmdline, m_args, m_sout, libIdx>>
    /\ IF Count(m_args, g_strStopAfter) = 0
       THEN /\ Goto("modes")
            /\ UNCHANGED <<m_options, m_serr, m_hasOutput>>
       ELSE IF As(m_args, g_strStopAfter) # "parsing"
       THEN /\ Serr(<< "Valid options for --" \o g_strStopAfter \o " are: \"parsing\"." >>)
            /\ Return("failure")
            /\ UNCHANGED m_options
       ELSE /\ m_options' = [ m_options EXCEPT !.stopAfter = << "Parsed" >> ]
            /\ Goto("modes")
            /\ UNCHANGED <<m_serr, m_hasOutput>>

\* Lines 909-910: the line written when more than one mode is selected.
ExclusiveModesLine ==
    "The following options are mutually exclusive: "
        \o joinOptionNames(exclusiveModes, DefaultSeparator) \o ". "
        \o "Select at most one."

\* A variant of TooManyModes that lets two modes pass.
TooManyModesAboveTwo(args) == countEnabledOptions(args, exclusiveModes) > 2

\* Line 907: more than one of the mode options is present.
TooManyModes(args) == countEnabledOptions(args, exclusiveModes) > 1

\* Lines 899-912.
ExclusiveModes ==
    /\ At("modes")
    /\ UNCHANGED <<cmdline, m_args, m_options, m_sout, libIdx>>
    /\ IF TooManyModes(m_args)
       THEN /\ Serr(<< ExclusiveModesLine >>)
            /\ Return("failure")
       ELSE /\ Goto("standardJson")
            /\ UNCHANGED <<m_serr, m_hasOutput>>

\* A variant of StandardJsonAccepts that lets two input files pass.
StandardJsonAcceptsTwo(inputFiles) == Len(inputFiles) <= 2

\* Lines 921-927: Standard JSON mode takes its input from at most one file.
StandardJsonAccepts(inputFiles) == Len(inputFiles) <= 1

\* Lines 914-930.
StandardJson ==
    /\ At("standardJson")
    /\ UNCHANGED <<cmdline, m_args, m_sout, libIdx>>
    /\ IF Count(m_args, g_strStandardJSON) = 0
       THEN /\ Goto("inputPaths")
            /\ UNCHANGED <<m_options, m_serr, m_hasOutput>>
       ELSE LET inputFiles == m_args.val[g_strInputFile]
            IN  IF Len(inputFiles) = 1
                THEN /\ m_options' = [ m_options EXCEPT !.inputMode = "StandardJson",
                                                        !.standardJsonInputFile = << inputFiles[1] >> ]
                     /\ Return("success")
                     /\ UNCHANGED <<m_serr, m_hasOutput>>
                ELSE IF ~StandardJsonAccepts(inputFiles)
                THEN /\ m_options' = [ m_options EXCEPT !.inputMode = "StandardJson" ]
                     /\ Serr(<< "If --" \o g_strStandardJSON
                                 \o " is used, only zero or one input files are supported." >>)
                     /\ Return("failure")
                ELSE /\ m_options' = [ m_options EXCEPT !.inputMode = "StandardJson" ]
                     /\ Return("success")
                     /\ UNCHANGED <<m_serr, m_hasOutput>>

\* Lines 932-933.
InputPathsAndRemappings ==
    /\ At("inputPaths")
    /\ UNCHANGED <<cmdline, m_args, m_sout, libIdx>>
    /\ LET r == parseInputPathsAndRemappings(m_args, m_options)
       IN  /\ m_options' = r.options
           /\ IF r.ok
              THEN /\ Goto("libraries")
                   /\ UNCHANGED <<m_serr, m_hasOutput>>
              ELSE /\ Serr(r.serr)
                   /\ Return("failure")

\* Lines 935-938: one call of parseLibraryOption, for the next --libraries argument;
\* control leaves the loop when there is none left.
LibraryOption ==
    /\ At("libraries")
    /\ UNCHANGED <<cmdline, m_args, m_sout>>
    /\ IF libIdx > Len(m_args.val[g_strLibraries])
       THEN /\ Goto("evmVersion")
            /\ UNCHANGED <<m_options, m_serr, m_hasOutput, libIdx>>
       ELSE LET r == parseLibraryOption(cmdline.files, m_args.val[g_strLibraries][libIdx],
                                        m_options.libraries)
            IN  /\ m_options' = [ m_options EXCEPT !.libraries = r.libraries ]
                /\ libIdx' = libIdx + 1
                /\ IF r.ok
                   THEN /\ Goto("libraries")
                        /\ UNCHANGED <<m_serr, m_hasOutput>>
                   ELSE /\ Serr(r.serr)
                        /\ Return("failure")

\* Lines 940-950.
EVMVersionOption ==
    /\ At("evmVersion")
    /\ UNCHANGED <<cmdline, m_args, m_sout, libIdx>>
    /\ IF Count(m_args, g_strEVMVersion) = 0
       THEN /\ Goto("assembler")
            /\ UNCHANGED <<m_options, m_serr, m_hasOutput>>
       ELSE LET versionOptionStr == As(m_args, g_strEVMVersion)
            IN  IF versionOptionStr \notin EVMVersionNames
                THEN /\ Serr(<< "Invalid option for --" \o g_strEVMVersion \o ": "
                                 \o versionOptionStr >>)
                     /\ Return("failure")
                     /\ UNCHANGED m_options
                ELSE /\ m_options' = [ m_options EXCEPT !.evmVersion = versionOptionStr ]
                     /\ Goto("assembler")
                     /\ UNCHANGED <<m_serr, m_hasOutput>>

\* A variant of nonAssemblyModeOptions without --gas.
nonAssemblyModeOptionsWithoutGas ==
    << g_strOutputDir, g_strCombinedJson, "optimize-yul", g_strNoOptimizeYul >>

\* nonAssemblyModeOptions (lines 956-963).
nonAssemblyModeOptions ==
    << g_strOutputDir, g_strGas, g_strCombinedJson, "optimize-yul", g_strNoOptimizeYul >>

\* Lines 966-973: the lines written when an option of that list is present.
NonAssemblyModeLines(args) ==
    LET enabledOptions == SelectSeq(nonAssemblyModeOptions, LAMBDA name : Count(args, name) > 0)
        head == "The following options are invalid in assembly mode: "
                  \o joinOptionNames(enabledOptions, DefaultSeparator) \o "."
    IN  IF Count(args, "optimize-yul") > 0 \/ Count(args, g_strNoOptimizeYul) > 0
        THEN << head \o " Optimization is disabled by default and can be enabled with --"
                     \o g_strOptimize \o ".", "" >>
        ELSE << head >>

\* A variant of StoreYulOptimiserSteps that leaves the steps unset.
KeepYulOptimiserSteps(args, options) == options

\* Lines 1003 and 1163: the validated value of --yul-optimizations is stored as given.
StoreYulOptimiserSteps(args, options) ==
    IF Count(args, g_strYulOptimizations) > 0
    THEN [ options EXCEPT !.yulOptimiserSteps = << As(args, g_strYulOptimizations) >> ]
    ELSE options

\* A variant of TranslateToEwasm that switches every input language to Ewasm.
TranslateAnyToEwasm(options) ==
    IF options.targetMachine = "Ewasm"
    THEN [ options EXCEPT !.inputAssemblyLanguage = "Ewasm" ]
    ELSE options

\* Lines 1018-1019: strict assembly for the Ewasm machine is read as Ewasm.
TranslateToEwasm(options) ==
    IF options.targetMachine = "Ewasm" /\ options.inputAssemblyLanguage = "StrictAssembly"
    THEN [ options EXCEPT !.inputAssemblyLanguage = "Ewasm" ]
    ELSE options

\* A variant of DialectMismatch that also wants the EVM machine for the evm dialect.
DialectMismatchEither(dialect, targetMachine) ==
    \/ dialect = g_strEwasm /\ targetMachine # "Ewasm"
    \/ dialect = g_strEVM /\ targetMachine # "EVM"

\* Lines 1026-1034: the ewasm dialect needs the Ewasm machine.
DialectMismatch(dialect, targetMachine) ==
    dialect = g_strEwasm /\ targetMachine # "Ewasm"

\* A variant of EwasmUnsupported that lets every language through.
EwasmUnsupportedNever(options) == FALSE

\* Line 1050: the Ewasm machine is targeted and the language is neither strict
\* assembly nor Ewasm.
EwasmUnsupported(options) ==
    /\ options.targetMachine = "Ewasm"
    /\ options.inputAssemblyLanguage \notin { "StrictAssembly", "Ewasm" }

\* Lines 977-1060: the options of a run in assembly mode after the list was checked,
\* as [ok, serr, options].
ResolveAssembly(args, options) ==
    LET o1 == [ options EXCEPT
                  !.inputAssemblyLanguage =
                      IF Count(args, g_strYul) > 0 THEN "Yul"
                      ELSE IF Count(args, g_strStrictAssembly) > 0 THEN "StrictAssembly"
                      ELSE "Assembly",
                  !.optimize = Count(args, g_strOptimize) > 0,
                  !.noOptimizeYul = Count(args, g_strNoOptimizeYul) > 0 ]
        hasSteps == Count(args, g_strYulOptimizations) > 0
        stepsError == validateSequence(As(args, g_strYulOptimizations))
        o2 == StoreYulOptimiserSteps(args, o1)
        hasMachine == Count(args, g_strMachine) > 0
        machine == As(args, g_strMachine)
        o3 == IF hasMachine /\ machine = g_strEVM THEN [ o2 EXCEPT !.targetMachine = "EVM" ]
              ELSE IF hasMachine /\ machine = g_strEwasm
              THEN [ o2 EXCEPT !.targetMachine = "Ewasm" ]
              ELSE o2
        o4 == TranslateToEwasm(o3)
        hasDialect == Count(args, g_strYulDialect) > 0
        dialect == As(args, g_strYulDialect)
        o5 == IF hasDialect /\ dialect = g_strEVM
              THEN [ o4 EXCEPT !.inputAssemblyLanguage = "StrictAssembly" ]
              ELSE IF hasDialect /\ dialect = g_strEwasm
              THEN [ o4 EXCEPT !.inputAssemblyLanguage = "Ewasm" ]
              ELSE o4
        Stop(lines, o) == [ ok |-> FALSE, serr |-> lines, options |-> o ]
    IN  IF hasSteps /\ ~o1.optimize
        THEN Stop(<< "--" \o g_strYulOptimizations
                      \o " is invalid if Yul optimizer is disabled" >>, o1)
        ELSE IF hasSteps /\ stepsError # <<>>
        THEN Stop(<< "Invalid optimizer step sequence in --" \o g_strYulOptimizations
                      \o ": " \o stepsError[1] >>, o1)
        ELSE IF hasMachine /\ machine \notin { g_strEVM, g_strEwasm }
        THEN Stop(<< "Invalid option for --" \o g_strMachine \o ": " \o machine >>, o2)
        ELSE IF hasDialect /\ DialectMismatch(dialect, o5.targetMachine)
        THEN Stop(<< "If you select Ewasm as --" \o g_strYulDialect \o ", "
                      \o "--" \o g_strMachine \o " has to be Ewasm as well." >>, o5)
        ELSE IF hasDialect /\ dialect \notin { g_strEVM, g_strEwasm }
        THEN Stop(<< "Invalid option for --" \o g_strYulDialect \o ": " \o dialect >>, o4)
        ELSE IF o5.optimize /\ o5.inputAssemblyLanguage \notin { "StrictAssembly", "Ewasm" }
        THEN Stop(<< "Optimizer can only be used for strict assembly. Use --"
                      \o g_strStrictAssembly \o "." >>, o5)
        ELSE IF EwasmUnsupported(o5)
        THEN Stop(<< "The selected input language is not directly supported when targeting the Ewasm machine "
                      \o "and automatic translation is not available." >>, o5)
        ELSE [ ok |-> TRUE,
               serr |-> << "Warning: Yul is still experimental. Please use the output with care." >>,
               options |-> o5 ]

\* Lines 952-1061.
AssemblerMode ==
    /\ At("assembler")
    /\ UNCHANGED <<cmdline, m_args, m_sout, libIdx>>
    /\ IF Count(m_args, "assemble") = 0 /\ Count(m_args, g_strStrictAssembly) = 0
          /\ Count(m_args, g_strYul) = 0
       THEN /\ Goto("strayOptions")
            /\ UNCHANGED <<m_options, m_serr, m_hasOutput>>
       ELSE IF countEnabledOptions(m_args, nonAssemblyModeOptions) >= 1
       THEN /\ m_options' = [ m_options EXCEPT !.inputMode = "Assembler" ]
            /\ Serr(NonAssemblyModeLines(m_args))
            /\ Return("failure")
       ELSE LET r == ResolveAssembly(m_args, [ m_options EXCEPT !.inputMode = "Assembler" ])
            IN  /\ m_options' = r.options
                /\ Serr(r.serr)
                /\ Return(IF r.ok THEN "success" ELSE "failure")

\* A variant of StrayOptions that looks for --yul-dialect alone.
StrayOptionsDialectOnly(args) == Count(args, g_strYulDialect) >= 1

\* Line 1062: --yul-dialect or --machine is present.
StrayOptions(args) ==
    countEnabledOptions(args, << g_strYulDialect, g_strMachine >>) >= 1

\* Lines 1062-1067.
StrayAssemblyOptions ==
    /\ At("strayOptions")
    /\ UNCHANGED <<cmdline, m_args, m_options, m_sout, libIdx>>
    /\ IF StrayOptions(m_args)
       THEN /\ Serr(<< "--" \o g_strYulDialect \o " and --" \o g_strMachine \o " "
                        \o "are only valid in assembly mode." >>)
            /\ Return("failure")
       ELSE /\ Goto("linker")
            /\ UNCHANGED <<m_serr, m_hasOutput>>

\* A variant of LinkRequested that never sees --link.
LinkRequestedNever(args) == FALSE

\* Line 1069: --link is present.
LinkRequested(args) == Count(args, g_strLink) > 0

\* Lines 1069-1073.
LinkerMode ==
    /\ At("linker")
    /\ UNCHANGED <<cmdline, m_args, m_sout, m_serr, m_hasOutput, libIdx>>
    /\ IF LinkRequested(m_args)
       THEN /\ m_options' = [ m_options EXCEPT !.inputMode = "Linker" ]
            /\ Return("success")
       ELSE /\ Goto("compiler")
            /\ UNCHANGED m_options

\* CompilerStack::MetadataHash of a --metadata-hash value (lines 1078-1083).
MetadataHashOf(hashStr) ==
    IF hashStr = "ipfs" THEN "IPFS" ELSE IF hashStr = "swarm" THEN "Bzzr1" ELSE "None"

\* A variant of FinalInputMode that leaves the mode of an AST import at Compiler.
FinalInputModeKept(args, options) ==
    [ options EXCEPT !.errorRecovery = Count(args, "error-recovery") > 0 ]

\* A variant of FinalInputMode that reads --error-recovery for an AST import too.
FinalInputModeWithRecovery(args, options) ==
    [ options EXCEPT
        !.inputMode = IF Count(args, g_strImportAst) > 0 THEN "CompilerWithASTImport" ELSE @,
        !.errorRecovery = Count(args, "error-recovery") > 0 ]

\* Lines 1166-1169: the mode of a run that imports ASTs, and error recovery otherwise.
FinalInputMode(args, options) ==
    IF Count(args, g_strImportAst) > 0
    THEN [ options EXCEPT !.inputMode = "CompilerWithASTImport" ]
    ELSE [ options EXCEPT !.errorRecovery = Count(args, "error-recovery") > 0 ]

\* Lines 1075-1172: the options of a run in compiler mode, as [ok, serr, options].
ResolveCompiler(args, options) ==
    LET hasHash == Count(args, g_strMetadataHash) > 0
        hashStr == As(args, g_strMetadataHash)
        o1 == IF hasHash THEN [ options EXCEPT !.metadataHash = MetadataHashOf(hashStr) ]
              ELSE options
        hasContracts == Count(args, g_strModelCheckerContracts) > 0
        contractsStr == As(args, g_strModelCheckerContracts)
        o2 == IF hasContracts
              THEN [ o1 EXCEPT !.modelCheckerSettings.contracts = contractsStr ] ELSE o1
        hasEngine == Count(args, g_strModelCheckerEngine) > 0
        engineStr == As(args, g_strModelCheckerEngine)
        o3 == IF hasEngine THEN [ o2 EXCEPT !.modelCheckerSettings.engine = engineStr ] ELSE o2
        hasTargets == Count(args, g_strModelCheckerTargets) > 0
        targetsStr == As(args, g_strModelCheckerTargets)
        o4 == IF hasTargets
              THEN [ o3 EXCEPT !.modelCheckerSettings.targets = targetsStr ] ELSE o3
        o5 == [ o4 EXCEPT
                  !.modelCheckerSettings.timeout =
                      IF Count(args, "model-checker-timeout") > 0
                      THEN << As(args, "model-checker-timeout") >> ELSE @,
                  !.metadataLiteral = Count(args, "metadata-literal") > 0,
                  !.initializeModelChecker =
                      \/ Count(args, g_strModelCheckerContracts) > 0
                      \/ Count(args, g_strModelCheckerEngine) > 0
                      \/ Count(args, g_strModelCheckerTargets) > 0
                      \/ Count(args, "model-checker-timeout") > 0,
                  !.experimentalViaIR = Count(args, "experimental-via-ir") > 0,
                  !.expectedExecutionsPerDeployment = As(args, "optimize-runs"),
                  !.optimize = Count(args, g_strOptimize) > 0,
                  !.noOptimizeYul = Count(args, g_strNoOptimizeYul) > 0 ]
        hasSteps == Count(args, g_strYulOptimizations) > 0
        stepsError == validateSequence(As(args, g_strYulOptimizations))
        o6 == StoreYulOptimiserSteps(args, o5)
        o7 == FinalInputMode(args, o6)
        Stop(lines, o) == [ ok |-> FALSE, serr |-> lines, options |-> o ]
    IN  IF hasHash /\ hashStr \notin g_metadataHashArgs
        THEN Stop(<< "Invalid option for --" \o g_strMetadataHash \o ": " \o hashStr >>, options)
        ELSE IF hasContracts /\ ~ModelCheckerContractsValid(contractsStr)
        THEN Stop(<< "Invalid option for --" \o g_strModelCheckerContracts \o ": "
                      \o contractsStr >>, o1)
        ELSE IF hasEngine /\ engineStr \notin ModelCheckerEngineNames
        THEN Stop(<< "Invalid option for --" \o g_strModelCheckerEngine \o ": "
                      \o engineStr >>, o2)
        ELSE IF hasTargets /\ ~ModelCheckerTargetsValid(targetsStr)
        THEN Stop(<< "Invalid option for --" \o g_strModelCheckerTargets \o ": "
                      \o targetsStr >>, o3)
        ELSE IF hasSteps /\ ~RunYulOptimiser(o5.optimize, o5.noOptimizeYul)
        THEN Stop(<< "--" \o g_strYulOptimizations
                      \o " is invalid if Yul optimizer is disabled" >>, o5)
        ELSE IF hasSteps /\ stepsError # <<>>
        THEN Stop(<< "Invalid optimizer step sequence in --" \o g_strYulOptimizations
                      \o ": " \o stepsError[1] >>, o5)
        ELSE [ ok |-> TRUE, serr |-> <<>>, options |-> o7 ]

\* Lines 1075-1173; the solAssert of line 1171 holds of every state that returns here.
CompilerMode ==
    /\ At("compiler")
    /\ UNCHANGED <<cmdline, m_args, m_sout, libIdx>>
    /\ LET r == ResolveCompiler(m_args, m_options)
       IN  /\ m_options' = r.options
           /\ IF r.ok
              THEN /\ Return("success")
                   /\ UNCHANGED <<m_serr, m_hasOutput>>
              ELSE /\ Serr(r.serr)
                   /\ Return("failure")

(***************************************************************************)
(* The command lines the model runs parse on.                              *)
(***************************************************************************)
\* The longest list of positional arguments.
MaxInputFiles == 2

\* The largest number of --libraries arguments.
MaxLibraryArgs == 2

\* The longest list of names in a --combined-json value that mixes names.
MaxJsonItems == 2

\* The largest number of output options given together with --stop-after.
MaxOutputFlags == 2

\* A command line without arguments, on a file system without files.
Plain ==
    [ flags |-> {}, val |-> EmptyArgs.val, malformed |-> FALSE, interactive |-> FALSE,
      files |-> {} ]

Flags(c, F) == [ c EXCEPT !.flags = @ \cup F ]

Val(c, name, v) == [ c EXCEPT !.val[name] = v ]

\* An option that may be absent: no value, or one of S.
Opt(S) == { <<>> } \cup { <<v>> : v \in S }

SeqsUpTo(S, n) == UNION { [ 1..k -> S ] : k \in 0..n }

SubsetsUpTo(S, n) == { T \in SUBSET S : Cardinality(T) <= n }

\* Every combination of the six mode options, with the early exits and with one or
\* no input file.
ModeLines ==
    { Val(Flags(Plain, M \cup E), g_strInputFile, files) :
        M \in SUBSET Range(exclusiveModes),
        E \in { {}, { g_strHelp }, { g_strVersion }, { "license" },
                { g_strHelp, g_strVersion } },
        files \in { <<>>, << "a.sol" >> } }

\* --stop-after with the output options it excludes, the colour options and the
\* early exits.
StopAfterLines ==
    { Val(Flags(Plain, O \cup C \cup E), g_strStopAfter, stop) :
        O \in SubsetsUpTo(Range(conflictingWithStopAfter), MaxOutputFlags),
        C \in SUBSET { g_strColor, g_strNoColor },
        E \in { {}, { g_strVersion }, { g_strStandardJSON } },
        stop \in Opt({ "parsing", "foo" }) }

\* The names mixed in --combined-json lists: some of the vocabulary, some outside it.
JsonListPool ==
    { g_strAbi, g_strBinary, g_strAsm, "compact-format", "interface", "bogus", "",
      "Zed" }

\* The values of --combined-json: every single name, and the mixed lists.
CombinedJsonValues ==
    g_combinedJsonArgs
        \cup { Join(items, ",") : items \in SeqsUpTo(JsonListPool, MaxJsonItems) }

CombinedJsonLines ==
    { Val(Flags(Plain, M), g_strCombinedJson, << v >>) :
        M \in { {}, { g_strStandardJSON }, { g_strLink }, { g_strHelp } },
        v \in CombinedJsonValues }

\* Positional arguments: a source file, standard input, remappings, a remapping
\* without a prefix.
InputTokens == { "a.sol", "-", "ctx:a/b=/usr/lib/", "ctx:a/b=/usr/lib/foo", "=x" }

InputLines ==
    { Val(Flags(Plain, M), g_strInputFile, files) :
        M \in { {}, { g_strStandardJSON }, { g_strLink }, { g_strYul } },
        files \in SeqsUpTo(InputTokens, MaxInputFiles) }

\* The options that parse validates after the mode is known, each with a value that
\* some mode rejects.
LateOptions ==
    { Plain,
      Val(Plain, g_strLibraries, << "L" >>),
      Val(Plain, g_strEVMVersion, << "paris" >>),
      Val(Plain, g_strMachine, << g_strEwasm >>),
      Val(Plain, g_strYulDialect, << "foo" >>),
      Val(Plain, g_strMetadataHash, << "md5" >>),
      Val(Plain, g_strYulOptimizations, << "1" >>) }

\* --standard-json with the other options that parse validates somewhere.
StandardJsonLines ==
    { Val(Val(Val(Val(Flags(late, { g_strStandardJSON } \cup F),
                      g_strRevertStrings, revert),
                  g_strCombinedJson, json),
              g_strStopAfter, stop),
          g_strInputFile, files) :
        late \in LateOptions,
        F \in SUBSET { g_strColor, g_strNoColor },
        revert \in Opt({ "strip", "foo" }),
        json \in Opt({ "abi", "bogus" }),
        stop \in Opt({ "parsing", "foo" }),
        files \in { <<>>, << "a=b" >>, << "a.sol", "b.sol" >> } }

\* Addresses: 0x and 40 hex digits.
Address1 == "0x1111111111111111111111111111111111111111"

Address2 == "0x2222222222222222222222222222222222222222"

\* The --libraries arguments: good and bad specifiers, several in one argument, and
\* the name of a file.
LibraryArgs ==
    { "L=" \o Address1, "L=" \o Address2, "M=" \o Address2, "L:" \o Address1,
      "L=" \o Address1 \o ",M=" \o Address2 \o " L=" \o Address2,
      "L=0x11", "a=b=c", "libs.txt" }

\* The file systems: none of the arguments names a file, libs.txt is a file, or the
\* probe of libs.txt throws.
FileSystems ==
    { {},
      { [ path |-> "libs.txt", status |-> "regular", content |-> "L=" \o Address1 \o "\n" ] },
      { [ path |-> "libs.txt", status |-> "error", content |-> "" ] } }

\* Specifiers that differ in the address and in the separator: a checksummed address
\* with letters, the same with the case of one letter flipped, the zero address, no
\* address, no prefix, 41 digits, characters that are no hex digits, no name, colons
\* around either separator, and no separator.
AddressArgs ==
    { "A=0xaBcDEf0123456789aBcDEf0123456789aBcDEf01",
      "A=0xabcDEf0123456789aBcDEf0123456789aBcDEf01",
      "Z=0x0000000000000000000000000000000000000000",
      "E=",
      "P=1111111111111111111111111111111111111111",
      "S=0x11111111111111111111111111111111111111111",
      "G=0xgggggggggggggggggggggggggggggggggggggggg",
      "=" \o Address1,
      "a:b=" \o Address2,
      "a:b:" \o Address1,
      "c=0x11:22",
      "nosep" }

LibraryLines ==
    { [ Val(Flags(Plain, M), g_strLibraries, libs) EXCEPT !.files = fs ] :
        M \in { {}, { g_strStandardJSON }, { g_strLink } },
        libs \in SeqsUpTo(LibraryArgs, MaxLibraryArgs),
        fs \in FileSystems }
      \cup { Val(Plain, g_strLibraries, libs) :
                libs \in SeqsUpTo(AddressArgs, MaxLibraryArgs) }

\* The options of assembly mode, in and out of assembly mode.
AssemblyLines ==
    { Val(Val(Val(Flags(Plain, M \cup O \cup D), g_strMachine, machine),
              g_strYulDialect, dialect),
          g_strYulOptimizations, steps) :
        M \in { {}, { "assemble" }, { g_strStrictAssembly }, { g_strYul }, { g_strLink },
                { g_strImportAst } },
        O \in SUBSET { g_strOptimize },
        D \in { {}, { g_strGas }, { "optimize-yul" }, { g_strGas, g_strNoOptimizeYul } },
        machine \in Opt({ g_strEVM, g_strEwasm, "x86" }),
        dialect \in Opt({ g_strEVM, g_strEwasm, "foo" }),
        steps \in Opt({ "dhfo", "1" }) }
      \cup { Val(Val(Flags(Plain, M \cup D), g_strOutputDir, dir), g_strCombinedJson, json) :
                M \in { { "assemble" }, { g_strStrictAssembly }, { g_strYul } },
                D \in SUBSET { g_strGas, "optimize-yul", g_strNoOptimizeYul },
                dir \in Opt({ "out" }),
                json \in Opt({ g_strAbi }) }

\* The model-checker options: none, or one of them with a good or a bad value.
ModelCheckerOptions ==
    { Plain,
      Val(Plain, g_strModelCheckerEngine, << "bmc" >>),
      Val(Plain, g_strModelCheckerEngine, << "smt" >>),
      Val(Plain, g_strModelCheckerTargets, << "assert,overflow" >>),
      Val(Plain, g_strModelCheckerTargets, << "foo" >>),
      Val(Plain, g_strModelCheckerContracts, << "a.sol:C" >>),
      Val(Plain, g_strModelCheckerContracts, << "C" >>),
      Val(Plain, "model-checker-timeout", << 100 >>) }

\* The options of compiler mode.
CompilerLines ==
    { Val(Val(Flags(mc, M \cup F), g_strMetadataHash, hash), g_strYulOptimizations, steps) :
        mc \in ModelCheckerOptions,
        M \in { {}, { g_strImportAst }, { g_strLink } },
        F \in SUBSET { g_strOptimize, g_strNoOptimizeYul, "error-recovery" },
        hash \in Opt({ "swarm", "md5" }),
        steps \in Opt({ "dhfo", "1" }) }

\* The rest: a command line the tokenizer rejects, a terminal without arguments, and
\* the options that are stored without validation.
OtherLines ==
    { [ Plain EXCEPT !.malformed = TRUE ],
      [ Plain EXCEPT !.interactive = TRUE ],
      Val(Plain, g_strOutputDir, << "out" >>),
      Val(Flags(Plain, { g_strYul }), g_strOutputDir, << "out" >>),
      Val(Flags(Plain, { g_strYul }), g_strCombinedJson, << g_strAbi >>),
      Val(Plain, "base-path", << "/src" >>),
      Val(Plain, "allow-paths", << "/usr/lib/,/opt/x" >>),
      Val(Plain, g_strEVMVersion, << "istanbul" >>),
      Val(Plain, g_strEVMVersion, << "paris" >>),
      Val(Plain, "optimize-runs", << 1 >>),
      Flags(Plain, outputComponents \cup
                   { "overwrite", "pretty-json", "error-codes", "metadata-literal",
                     "experimental-via-ir", "ignore-missing", g_strColor }) }

CommandLines ==
    ModeLines \cup StopAfterLines \cup CombinedJsonLines \cup InputLines
        \cup StandardJsonLines \cup LibraryLines \cup AssemblyLines \cup CompilerLines
        \cup OtherLines

(***************************************************************************)
(* The specification.                                                      *)
(***************************************************************************)
\* A CommandLineParser on which parse is called: m_hasOutput = false (line 474),
\* m_args empty, m_options as constructed.
Init ==
    /\ cmdline \in CommandLines
    /\ m_args = EmptyArgs
    /\ m_options = DefaultOptions
    /\ m_hasOutput = FALSE
    /\ m_sout = <<>>
    /\ m_serr = <<>>
    /\ libIdx = 1
    /\ pc = "tokenize"
    /\ result = "running"

Next ==
    \/ Tokenize
    \/ CheckColorExclusive
    \/ CheckStopAfterExclusive
    \/ SetColoredOutput
    \/ Help
    \/ Version
    \/ License
    \/ RevertStrings
    \/ CombinedJson
    \/ OutputSelection
    \/ StopAfter
    \/ ExclusiveModes
    \/ StandardJson
    \/ InputPathsAndRemappings
    \/ LibraryOption
    \/ EVMVersionOption
    \/ AssemblerMode
    \/ StrayAssemblyOptions
    \/ LinkerMode
    \/ CompilerMode

Spec == Init /\ [][Next]_vars

(***************************************************************************)
(* Properties.                                                             *)
(***************************************************************************)
\* The blocks of parse in the order of the code.
Steps ==
    << "tokenize", "checkColor", "checkStopAfter", "setColor", "help", "version",
       "license", "revertStrings", "combinedJson", "outputs", "stopAfter", "modes",
       "standardJson", "inputPaths", "libraries", "evmVersion", "assembler",
       "strayOptions", "linker", "compiler" >>

StepIndex(step) == CHOOSE i \in 1..Len(Steps) : Steps[i] = step

Done == result # "running"

\* parse returned (or the process exited) in that block.
ReturnedAt(step) == pc = step /\ Done

\* That block has run: control is past it, or parse returned in it.
Acted(step) == StepIndex(pc) > StepIndex(step) \/ ReturnedAt(step)

\* The option is on the command line.
Supplied(name) == Count(cmdline, name) > 0

\* The number of mode options on the command line.
ModesSupplied == Cardinality({ o \in Range(exclusiveModes) : Supplied(o) })

\* C1 (as claimed): when the mode check rejects a command line, its diagnostic names
\* exactly the mode options that were supplied and none of the other mode options.
C1_NamesExactlySupplied ==
    ReturnedAt("modes") =>
        /\ result = "failure"
        /\ \A o \in Range(exclusiveModes) : Contains(m_serr[1], "--" \o o) <=> Supplied(o)

\* C1 (amended): a command line with two or more of the six mode options never
\* succeeds, and when the mode check runs on it parse fails there with one
\* diagnostic that names all six mode options, supplied or not.
C1_NamesAllModes ==
    /\ ModesSupplied > 1 => result # "success"
    /\ (ModesSupplied > 1 /\ Acted("modes")) =>
          /\ ReturnedAt("modes")
          /\ result = "failure"
          /\ Len(m_serr) = 1
          /\ \A o \in Range(exclusiveModes) : Contains(m_serr[1], "--" \o o)
    /\ (ModesSupplied <= 1 /\ Acted("modes")) => ~ReturnedAt("modes")

C1_Witness ==
    /\ ReturnedAt("modes")
    /\ ModesSupplied = 2
    /\ ~Supplied(g_strImportAst)
    /\ Contains(m_serr[1], "--" \o g_strImportAst)

\* C2: whenever parse returns success, at most one mode option was supplied and
\* inputMode is the mode it determines: StandardJson iff --standard-json, Assembler
\* iff one of --assemble, --strict-assembly, --yul, Linker iff --link,
\* CompilerWithASTImport iff --import-ast, Compiler iff none of the six.
C2_ModeDetermined ==
    result = "success" =>
        /\ ModesSupplied <= 1
        /\ m_options.inputMode = "StandardJson" <=> Supplied(g_strStandardJSON)
        /\ m_options.inputMode = "Assembler" <=>
              (Supplied("assemble") \/ Supplied(g_strStrictAssembly) \/ Supplied(g_strYul))
        /\ m_options.inputMode = "Linker" <=> Supplied(g_strLink)
        /\ m_options.inputMode = "CompilerWithASTImport" <=> Supplied(g_strImportAst)
        /\ m_options.inputMode = "Compiler" <=> ModesSupplied = 0

C2_Witness ==
    /\ result = "success"
    /\ Supplied(g_strImportAst)
    /\ m_options.inputMode = "CompilerWithASTImport"

EarlyExitSupplied == Supplied(g_strHelp) \/ Supplied(g_strVersion) \/ Supplied("license")

\* C3 (as claimed): with --help, --version or --license on the command line the text
\* is emitted and no validation diagnostic is produced, whatever else is supplied.
C3_NoValidationBeforeExit ==
    (EarlyExitSupplied /\ Done) => (m_serr = <<>> /\ m_sout # <<>>)

\* C3 (amended): with --help, --version or --license on the command line, parse
\* never gets past the three early exits and never succeeds.  The tokenizer and the
\* two exclusion checks (--color with --no-color, --stop-after with an output
\* option) run before them and can end parse with their diagnostic and without the
\* text; once they have passed, only the text of the first of help, version,
\* license that is present is written, nothing goes to serr(), --help returns
\* failure and --version and --license end the process with status 0.
C3_ExitAfterExclusionChecks ==
    EarlyExitSupplied =>
        /\ StepIndex(pc) <= StepIndex("license")
        /\ result # "success"
        /\ (Done /\ StepIndex(pc) < StepIndex("help")) =>
              /\ pc \in { "tokenize", "checkColor", "checkStopAfter" }
              /\ result = "failure"
              /\ m_sout = <<>>
              /\ Len(m_serr) = 1
        /\ (Done /\ StepIndex(pc) >= StepIndex("help")) =>
              /\ m_serr = <<>>
              /\ m_sout = << IF Supplied(g_strHelp) THEN HelpText
                             ELSE IF Supplied(g_strVersion) THEN VersionText
                             ELSE LicenseText >>
              /\ result = IF Supplied(g_strHelp) THEN "failure" ELSE "exit0"
              /\ m_options.stopAfter = <<>>
              /\ m_options.inputMode = "Compiler"

C3_Witness ==
    /\ ReturnedAt("version")
    /\ Supplied(g_strStopAfter)
    /\ As(cmdline, g_strStopAfter) = "foo"
    /\ m_sout = << VersionText >>

\* --standard-json is the one mode option on the command line.
OnlyStandardJson == Supplied(g_strStandardJSON) /\ ModesSupplied = 1

\* C4: when --standard-json is the only mode option and parse has run the mode
\* branch, parse returns there: with success iff at most one input file is given,
\* standardJsonInputFile unset for no file and that file for one, failure for more
\* than one; sourceFilePaths, remappings and libraries are empty, whatever
\* --libraries, --evm-version, --machine, --yul-dialect, --metadata-hash,
\* --yul-optimizations or remapping tokens are supplied.
C4_StandardJsonInput ==
    (OnlyStandardJson /\ Acted("standardJson")) =>
        LET inputFiles == cmdline.val[g_strInputFile]
        IN  /\ ReturnedAt("standardJson")
            /\ m_options.inputMode = "StandardJson"
            /\ result = "success" <=> Len(inputFiles) <= 1
            /\ result = "failure" <=> Len(inputFiles) > 1
            /\ Len(inputFiles) = 0 => m_options.standardJsonInputFile = <<>>
            /\ Len(inputFiles) = 1 =>
                  m_options.standardJsonInputFile = << inputFiles[1] >>
            /\ Len(inputFiles) > 1 => m_options.standardJsonInputFile = <<>>
            /\ m_options.sourceFilePaths = {}
            /\ m_options.remappings = <<>>
            /\ m_options.libraries = {}

C4_Witness ==
    /\ OnlyStandardJson
    /\ result = "success"
    /\ Supplied(g_strLibraries)
    /\ cmdline.val[g_strInputFile] = << "a=b" >>
    /\ m_options.standardJsonInputFile = << "a=b" >>
    /\ m_options.remappings = <<>>

\* C5: every command line with --standard-json, no other mode option and at most
\* one input file ends in success with inputMode StandardJson, whatever other
\* options and option values it carries.
C5_StandardJsonIgnoresAllOptions ==
    ( /\ OnlyStandardJson
      /\ Len(cmdline.val[g_strInputFile]) <= 1
      /\ ~cmdline.malformed
      /\ ~EarlyExitSupplied
      /\ Done )
        => (result = "success" /\ m_options.inputMode = "StandardJson")

\* The options of the list of eight that are on the command line.
StopAfterConflicting == { o \in Range(conflictingWithStopAfter) : Supplied(o) }

\* The first of them in the order of the list.
FirstStopAfterConflict ==
    conflictingWithStopAfter[
        CHOOSE i \in 1..Len(conflictingWithStopAfter) :
            /\ Supplied(conflictingWithStopAfter[i])
            /\ \A j \in 1..(i - 1) : ~Supplied(conflictingWithStopAfter[j]) ]

\* C6: parse succeeds with --stop-after only for the value parsing and without any
\* of bin, ir, ir-optimized, ewasm, gas, asm, asm-json, opcodes, and stopAfter is
\* then the parsing stage.  The exclusion check fails a command line that has
\* --stop-after and one of the eight, with the mutual-exclusion line for
\* --stop-after and the first of the eight that is present; the value check fails
\* a value other than parsing; it passes --stop-after parsing without any of the
\* eight and sets stopAfter to the parsing stage.
C6_StopAfter ==
    /\ (result = "success" /\ Supplied(g_strStopAfter)) =>
          /\ As(cmdline, g_strStopAfter) = "parsing"
          /\ StopAfterConflicting = {}
          /\ m_options.stopAfter = << "Parsed" >>
    /\ ~Supplied(g_strStopAfter) => m_options.stopAfter = <<>>
    /\ (Supplied(g_strStopAfter) /\ StopAfterConflicting # {} /\ Acted("checkStopAfter")) =>
          /\ ReturnedAt("checkStopAfter")
          /\ result = "failure"
          /\ m_serr = << MutuallyExclusiveLine(g_strStopAfter, FirstStopAfterConflict) >>
    /\ (Supplied(g_strStopAfter) /\ StopAfterConflicting = {} /\ Acted("checkStopAfter")) =>
          ~ReturnedAt("checkStopAfter")
    /\ (Supplied(g_strStopAfter) /\ As(cmdline, g_strStopAfter) # "parsing"
          /\ Acted("stopAfter")) =>
          /\ ReturnedAt("stopAfter")
          /\ result = "failure"
          /\ Len(m_serr) = 1
          /\ m_options.stopAfter = <<>>
    /\ (Supplied(g_strStopAfter) /\ As(cmdline, g_strStopAfter) = "parsing"
          /\ Acted("stopAfter")) =>
          /\ ~ReturnedAt("stopAfter")
          /\ m_options.stopAfter = << "Parsed" >>

C6_Witness ==
    /\ ReturnedAt("checkStopAfter")
    /\ Supplied(g_strStopAfter)
    /\ StopAfterConflicting = { "ir", g_strGas }
    /\ m_serr = << MutuallyExclusiveLine(g_strStopAfter, "ir") >>

\* C7: after every successful parse combinedJsonRequests is present iff
\* --combined-json was supplied; without the option the field is absent at every
\* point of parse.
C7_RequestsPresentIffSupplied ==
    /\ result = "success" =>
          (m_options.combinedJsonRequests # <<>> <=> Supplied(g_strCombinedJson))
    /\ ~Supplied(g_strCombinedJson) => m_options.combinedJsonRequests = <<>>

C7_Witness ==
    /\ result = "success"
    /\ Supplied(g_strCombinedJson)
    /\ As(cmdline, g_strCombinedJson) = "interface"
    /\ m_options.combinedJsonRequests # <<>>
    /\ \A f \in DOMAIN m_options.combinedJsonRequests[1] :
          ~m_options.combinedJsonRequests[1][f]

\* The token of each of the 17 flags of CombinedJsonRequests.
FlagToken ==
    [ abi |-> "abi",
      metadata |-> "metadata",
      binary |-> "bin",
      binaryRuntime |-> "bin-runtime",
      opcodes |-> "opcodes",
      asm_ |-> "asm",
      storageLayout |-> "storage-layout",
      generatedSources |-> "generated-sources",
      generatedSourcesRuntime |-> "generated-sources-runtime",
      srcMap |-> "srcmap",
      srcMapRuntime |-> "srcmap-runtime",
      funDebug |-> "function-debug",
      funDebugRuntime |-> "function-debug-runtime",
      signatureHashes |-> "hashes",
      natspecDev |-> "devdoc",
      natspecUser |-> "userdoc",
      ast |-> "ast" ]

\* The tokens of the --combined-json value on the command line.
SuppliedJsonTokens ==
    IF Supplied(g_strCombinedJson)
    THEN Range(Split(As(cmdline, g_strCombinedJson), {","}))
    ELSE {}

\* The flags that are set in a present combinedJsonRequests.
FlagsSet ==
    { f \in DOMAIN FlagToken : m_options.combinedJsonRequests[1][f] }

\* C8 (as claimed): in a present combinedJsonRequests a flag is set iff its token is
\* in the list, and every token of the list sets some flag.
C8_EveryTokenSetsAFlag ==
    m_options.combinedJsonRequests # <<>> =>
        /\ \A f \in DOMAIN FlagToken : (f \in FlagsSet) <=> (FlagToken[f] \in SuppliedJsonTokens)
        /\ \A t \in SuppliedJsonTokens : \E f \in FlagsSet : FlagToken[f] = t

\* C8 (amended): a list of recognized tokens is accepted and yields a present
\* combinedJsonRequests in which each of the 17 flags is set iff its token is in
\* the list; the two other names of the vocabulary, compact-format and interface,
\* are accepted and set no flag.
C8_FlagIffToken ==
    /\ m_options.combinedJsonRequests # <<>> =>
          /\ DOMAIN m_options.combinedJsonRequests[1] = DOMAIN FlagToken
          /\ \A f \in DOMAIN FlagToken :
                (f \in FlagsSet) <=> (FlagToken[f] \in SuppliedJsonTokens)
          /\ \A t \in SuppliedJsonTokens :
                \/ \E f \in FlagsSet : FlagToken[f] = t
                \/ t \in { "compact-format", "interface" }
    /\ ( /\ Supplied(g_strCombinedJson)
         /\ SuppliedJsonTokens \subseteq
               ({ FlagToken[f] : f \in DOMAIN FlagToken } \cup { "compact-format", "interface" })
         /\ Acted("combinedJson") )
          => (m_options.combinedJsonRequests # <<>> /\ ~ReturnedAt("combinedJson"))

C8_Witness ==
    /\ Acted("combinedJson")
    /\ Supplied(g_strCombinedJson)
    /\ As(cmdline, g_strCombinedJson) = "abi,bin"
    /\ m_options.combinedJsonRequests # <<>>
    /\ FlagsSet = { "abi", "binary" }

\* The tokens of the list that are outside the vocabulary.
UnrecognizedJsonTokens == SuppliedJsonTokens \ g_combinedJsonArgs

\* C9: a --combined-json value with a token outside the vocabulary never lets parse
\* succeed; when parseCombinedJsonOption runs on it parse fails there, the one
\* diagnostic names an unrecognized token of the list, and combinedJsonRequests
\* stays absent.
C9_UnrecognizedToken ==
    UnrecognizedJsonTokens # {} =>
        /\ result # "success"
        /\ m_options.combinedJsonRequests = <<>>
        /\ Acted("combinedJson") =>
              /\ ReturnedAt("combinedJson")
              /\ result = "failure"
              /\ \E t \in UnrecognizedJsonTokens :
                    m_serr = << "Invalid option to --combined-json: " \o t >>

C9_Witness ==
    /\ ReturnedAt("combinedJson")
    /\ As(cmdline, g_strCombinedJson) = "abi,bogus"
    /\ m_serr = << "Invalid option to --combined-json: bogus" >>
    /\ m_options.combinedJsonRequests = <<>>

\* The specifiers of all --libraries arguments, in the order parse reads them.
RECURSIVE SpecifiersFrom(_)
SpecifiersFrom(k) ==
    IF k > Len(cmdline.val[g_strLibraries]) THEN <<>>
    ELSE SelectSeq(LibrarySpecifiers(cmdline.files, cmdline.val[g_strLibraries][k]),
                   LAMBDA lib : lib # "")
            \o SpecifiersFrom(k + 1)

SuppliedSpecifiers == SpecifiersFrom(1)

\* The trimmed name of a specifier.
SpecifierName(lib) == Trim(SubSeq(lib, 1, LibrarySeparator(lib) - 1))

\* The specifier at position j names a library that an earlier one names.
SecondOccurrence(j) ==
    /\ LibrarySeparator(SuppliedSpecifiers[j]) # 0
    /\ \E i \in 1..(j - 1) :
          /\ LibrarySeparator(SuppliedSpecifiers[i]) # 0
          /\ SpecifierName(SuppliedSpecifiers[i]) = SpecifierName(SuppliedSpecifiers[j])

NameSuppliedTwice == \E j \in 1..Len(SuppliedSpecifiers) : SecondOccurrence(j)

FirstSecondOccurrence ==
    CHOOSE j \in 1..Len(SuppliedSpecifiers) :
        SecondOccurrence(j) /\ \A k \in 1..(j - 1) : ~SecondOccurrence(k)

\* C10: with a library name supplied twice, in one --libraries argument or across
\* several, the library step never completes: parse fails in it, and when every
\* specifier before the second occurrence is accepted the diagnostic is the
\* duplicate line naming that library and the library keeps the address of its
\* first occurrence.
C10_DuplicateLibrary ==
    (NameSuppliedTwice /\ Acted("libraries")) =>
        /\ ReturnedAt("libraries")
        /\ result = "failure"
        /\ LET j == FirstSecondOccurrence
               name == SpecifierName(SuppliedSpecifiers[j])
               before == ParseLibrarySpecifiers(SubSeq(SuppliedSpecifiers, 1, j - 1), {})
           IN  before.ok =>
                  /\ m_serr = << "Address specified more than once for library \""
                                   \o name \o "\"." >>
                  /\ m_options.libraries = before.libraries
                  /\ \E e \in m_options.libraries : e.name = name

C10_Witness ==
    /\ ReturnedAt("libraries")
    /\ cmdline.val[g_strLibraries] = << "L=" \o Address1, "L=" \o Address2 >>
    /\ m_serr = << "Address specified more than once for library \"L\"." >>
    /\ m_options.libraries =
          { [ name |-> "L", address |-> h160(fromHex(SubSeq(Address1, 3, Len(Address1)))) ] }

\* The address text of a specifier: what follows the separator, trimmed.
SpecifierAddress(lib) == Trim(SubSeq(lib, LibrarySeparator(lib) + 1, Len(lib)))

\* The 20 bytes that 0x and 40 hex digits denote.
AddressValue(text) ==
    [ i \in 1..20 |-> HexVal(CharAt(text, 2 * i + 1)) * 16 + HexVal(CharAt(text, 2 * i + 2)) ]

\* 0x, then exactly 40 hex digits that pass the checksum test and are not all zero.
WellFormedAddress(text) ==
    /\ Len(text) = 42
    /\ SubSeq(text, 1, 2) = "0x"
    /\ \A i \in 3..42 : HexVal(CharAt(text, i)) >= 0
    /\ passesAddressChecksum(SubSeq(text, 3, 42), FALSE)
    /\ \E i \in 3..42 : CharAt(text, i) # "0"

FirstSpecifierHasDigits ==
    /\ Len(SuppliedSpecifiers) > 0
    /\ LET lib == SuppliedSpecifiers[1]
       IN  /\ RFind(lib, "=") # 0
           /\ RFind(lib, "=") = Find(lib, "=")
           /\ Len(SpecifierAddress(lib)) = 42
           /\ SubSeq(SpecifierAddress(lib), 1, 2) = "0x"
           /\ \A i \in 3..42 : HexVal(CharAt(SpecifierAddress(lib), i)) >= 0
           /\ \E i \in 3..42 : CharAt(SpecifierAddress(lib), i) # "0"

FirstSpecifierDigits == SubSeq(SpecifierAddress(SuppliedSpecifiers[1]), 3, 42)

\* parseLibraryOption has been called at least once.
FirstLibraryArgumentRead ==
    StepIndex(pc) >= StepIndex("libraries") /\ libIdx > 1

AssemblerModeSupplied ==
    /\ ModesSupplied = 1
    /\ Supplied("assemble") \/ Supplied(g_strStrictAssembly) \/ Supplied(g_strYul)

\* The value of a single-valued option on the command line, <<>> when it is absent.
ValueOf(name) == cmdline.val[name]

\* Nothing on the command line but the options of the list.
OnlyOptions(names) ==
    /\ cmdline.flags \subseteq names
    /\ \A n \in ValuedOptions \ names : cmdline.val[n] = <<>>
    /\ ~cmdline.malformed

\* C13 (as claimed): --yul with --machine ewasm and no --yul-dialect resolves
\* successfully with input assembly language Ewasm.
C13_YulEwasmResolves ==
    ( /\ OnlyOptions({ g_strYul, g_strMachine })
      /\ Supplied(g_strYul)
      /\ ValueOf(g_strMachine) = << g_strEwasm >>
      /\ Done )
        => (result = "success" /\ m_options.inputAssemblyLanguage = "Ewasm")

\* C13 (amended): with --machine ewasm and no --yul-dialect, assembler mode
\* succeeds only for --strict-assembly, with input assembly language Ewasm and
\* target machine Ewasm; --strict-assembly --machine ewasm alone does succeed, and
\* --yul or --assemble with --machine ewasm and no dialect fails in assembler mode
\* with language Yul or Assembly left unsupported for the Ewasm machine.
C13_StrictAssemblyEwasm ==
    ( /\ AssemblerModeSupplied
      /\ ValueOf(g_strMachine) = << g_strEwasm >>
      /\ ValueOf(g_strYulDialect) = <<>> )
        => /\ result = "success" =>
                 /\ Supplied(g_strStrictAssembly)
                 /\ ReturnedAt("assembler")
                 /\ m_options.inputAssemblyLanguage = "Ewasm"
                 /\ m_options.targetMachine = "Ewasm"
           /\ (OnlyOptions({ g_strStrictAssembly, g_strMachine }) /\ Done) =>
                 result = "success"
           /\ (~Supplied(g_strStrictAssembly) /\ Acted("assembler")) =>
                 /\ ReturnedAt("assembler")
                 /\ result = "failure"
           /\ (OnlyOptions({ g_strYul, "assemble", g_strMachine }) /\ Done) =>
                 /\ ReturnedAt("assembler")
                 /\ m_options.inputAssemblyLanguage =
                       (IF Supplied(g_strYul) THEN "Yul" ELSE "Assembly")
                 /\ m_serr = << "The selected input language is not directly supported when targeting the Ewasm machine "
                                 \o "and automatic translation is not available." >>

C13_Witness ==
    /\ OnlyOptions({ g_strYul, g_strMachine })
    /\ Supplied(g_strYul)
    /\ ValueOf(g_strMachine) = << g_strEwasm >>
    /\ ReturnedAt("assembler")
    /\ result = "failure"
    /\ m_options.inputAssemblyLanguage = "Yul"

\* C14 (as claimed): in assembler mode a --yul-dialect that differs from the target
\* machine fails, for --machine ewasm with --yul-dialect evm as for --yul-dialect
\* ewasm with the EVM machine.
C14_AnyMismatchFails ==
    ( /\ AssemblerModeSupplied
      /\ ValueOf(g_strYulDialect) \in { << g_strEVM >>, << g_strEwasm >> }
      /\ ValueOf(g_strMachine) \in { <<>>, << g_strEVM >>, << g_strEwasm >> }
      /\ ValueOf(g_strYulDialect) #
            (IF ValueOf(g_strMachine) = <<>> THEN << g_strEVM >> ELSE ValueOf(g_strMachine))
      /\ Done )
        => result = "failure"

\* C14 (amended): in assembler mode --yul-dialect ewasm with the EVM machine,
\* explicit or default, never succeeds, and fails with the dialect diagnostic when
\* the preceding checks of the mode pass; --yul-dialect evm with --machine ewasm
\* is no mismatch: --yul --machine ewasm --yul-dialect evm succeeds with input
\* assembly language StrictAssembly and target machine Ewasm.
C14_EwasmDialectNeedsEwasm ==
    AssemblerModeSupplied =>
        /\ ( /\ ValueOf(g_strYulDialect) = << g_strEwasm >>
             /\ ValueOf(g_strMachine) \in { <<>>, << g_strEVM >> } )
              => /\ result # "success"
                 /\ Acted("assembler") => ReturnedAt("assembler")
                 /\ ( /\ Done
                      /\ OnlyOptions({ g_strYul, "assemble", g_strStrictAssembly,
                                       g_strMachine, g_strYulDialect }) )
                       => m_serr = << "If you select Ewasm as --yul-dialect, "
                                       \o "--machine has to be Ewasm as well." >>
        /\ ( /\ ValueOf(g_strYulDialect) = << g_strEVM >>
             /\ ValueOf(g_strMachine) = << g_strEwasm >>
             /\ OnlyOptions({ g_strYul, "assemble", g_strStrictAssembly,
                              g_strMachine, g_strYulDialect })
             /\ Done )
              => /\ result = "success"
                 /\ m_options.inputAssemblyLanguage = "StrictAssembly"
                 /\ m_options.targetMachine = "Ewasm"

C14_Witness ==
    /\ OnlyOptions({ g_strYul, g_strMachine, g_strYulDialect })
    /\ Supplied(g_strYul)
    /\ ValueOf(g_strMachine) = << g_strEwasm >>
    /\ ValueOf(g_strYulDialect) = << g_strEVM >>
    /\ result = "success"
    /\ m_options.inputAssemblyLanguage = "StrictAssembly"
    /\ m_options.targetMachine = "Ewasm"

\* C15 (as claimed): in every input mode a run with --yul-optimizations fails without
\* --optimize, fails with an invalid sequence, and on success has stored the sequence.
C15_AnyMode ==
    (Supplied(g_strYulOptimizations) /\ ~cmdline.malformed /\ ~EarlyExitSupplied /\ Done) =>
        IF ~Supplied(g_strOptimize) \/ validateSequence(As(cmdline, g_strYulOptimizations)) # <<>>
        THEN result = "failure"
        ELSE result = "success" =>
                m_options.yulOptimiserSteps = << As(cmdline, g_strYulOptimizations) >>

\* C15 (amended): in compiler mode (with or without --import-ast) and in assembler
\* mode a run with --yul-optimizations succeeds only with --optimize, a valid
\* sequence and, in compiler mode, without --no-optimize-yul, and then
\* yulOptimiserSteps is the sequence as given; --optimize --yul-optimizations
\* <steps> alone, or with --strict-assembly, succeeds iff the sequence is valid and
\* fails with the validator's message otherwise, and without --optimize it fails
\* with the optimizer-disabled line.  In Standard JSON and linker mode the option
\* is not looked at: the run succeeds with or without --optimize and the steps
\* stay unset.
C15_CompilerAndAssembler ==
    Supplied(g_strYulOptimizations) =>
        LET steps == As(cmdline, g_strYulOptimizations)
            alone == OnlyOptions({ g_strYulOptimizations, g_strOptimize, g_strImportAst,
                                   g_strStrictAssembly })
        IN  /\ (result = "success"
                  /\ m_options.inputMode \in { "Compiler", "CompilerWithASTImport", "Assembler" }) =>
                  /\ Supplied(g_strOptimize)
                  /\ validateSequence(steps) = <<>>
                  /\ m_options.inputMode # "Assembler" => ~Supplied(g_strNoOptimizeYul)
                  /\ m_options.yulOptimiserSteps = << steps >>
            /\ (result = "success" /\ m_options.inputMode \in { "StandardJson", "Linker" }) =>
                  m_options.yulOptimiserSteps = <<>>
            /\ (Done /\ OnlyOptions({ g_strYulOptimizations, g_strOptimize, g_strLink,
                                      g_strStandardJSON })
                  /\ ModesSupplied = 1) =>
                  result = "success"
            /\ (Done /\ alone /\ Supplied(g_strOptimize) /\ validateSequence(steps) = <<>>) =>
                  result = "success"
            /\ (Done /\ alone /\ Supplied(g_strOptimize) /\ validateSequence(steps) # <<>>) =>
                  /\ result = "failure"
                  /\ m_options.yulOptimiserSteps = <<>>
                  /\ m_serr = << "Invalid optimizer step sequence in --yul-optimizations: "
                                  \o validateSequence(steps)[1] >>
            /\ (Done /\ alone /\ ~Supplied(g_strOptimize)) =>
                  /\ result = "failure"
                  /\ m_options.yulOptimiserSteps = <<>>
                  /\ m_serr = << "--yul-optimizations is invalid if Yul optimizer is disabled" >>

C15_Witness ==
    /\ result = "success"
    /\ m_options.inputMode = "Linker"
    /\ Supplied(g_strYulOptimizations)
    /\ ~Supplied(g_strOptimize)
    /\ m_options.yulOptimiserSteps = <<>>

\* C16: after a successful parse in compiler mode, with or without --import-ast,
\* initializeModelChecker is true iff one of --model-checker-contracts,
\* --model-checker-engine, --model-checker-targets, --model-checker-timeout is on
\* the command line.
C16_InitializeIffSupplied ==
    (result = "success" /\ m_options.inputMode \in { "Compiler", "CompilerWithASTImport" }) =>
        (m_options.initializeModelChecker <=>
            \/ Supplied(g_strModelCheckerContracts)
            \/ Supplied(g_strModelCheckerEngine)
            \/ Supplied(g_strModelCheckerTargets)
            \/ Supplied("model-checker-timeout"))

\* The positional tokens of the command line.
SuppliedInputTokens == Range(cmdline.val[g_strInputFile])

\* The positional tokens that contain '='.
SuppliedRemappings == { t \in SuppliedInputTokens : Find(t, "=") # 0 }

\* What follows the first '=' of a remapping token.
RemappingTargetOf(t) == SubSeq(t, Find(t, "=") + 1, Len(t))

\* parseInputPathsAndRemappings has returned true.
InputPathsClassified == StepIndex(pc) > StepIndex("inputPaths")

\* The classification of the positional tokens that C17 states.
TokensClassified ==
    /\ m_options.sourceFilePaths =
          { t \in SuppliedInputTokens : Find(t, "=") = 0 /\ t # "-" }
    /\ m_options.addStdin <=> "-" \in SuppliedInputTokens
    /\ Len(m_options.remappings) =
          Len(SelectSeq(cmdline.val[g_strInputFile], LAMBDA t : Find(t, "=") # 0))

\* C17 (as claimed): once the positional tokens are classified, the tokens without
\* '=' other than "-" are the source file paths, "-" sets addStdin, every token with
\* '=' is a remapping, and the target of a remapping is among the allowed
\* directories as written, without its file name only when that file name is ".".
C17_TargetStrippedOfDotOnly ==
    InputPathsClassified =>
        /\ TokensClassified
        /\ \A t \in SuppliedRemappings :
              (IF Filename(RemappingTargetOf(t)) = "."
               THEN RemoveFilename(RemappingTargetOf(t))
               ELSE RemappingTargetOf(t)) \in m_options.allowedDirectories

\* C17 (amended): the classification is as claimed, and what a remapping adds to
\* the allowed directories is its target without the file name, whatever the file
\* name is: the allowed directories are those of --allow-paths and the parent
\* paths of the remapping targets.
C17_TargetParentAllowed ==
    InputPathsClassified =>
        /\ TokensClassified
        /\ m_options.allowedDirectories =
              AllowedPaths(cmdline)
                \cup { RemoveFilename(RemappingTargetOf(t)) : t \in SuppliedRemappings }

\* A successful parse of a remapping to /usr/lib/foo beside a source file:
\* /usr/lib is allowed and /usr/lib/foo is not.
C17_Witness ==
    /\ result = "success"
    /\ cmdline.val[g_strInputFile] = << "ctx:a/b=/usr/lib/foo", "a.sol" >>
    /\ m_options.allowedDirectories = { "/usr/lib" }
    /\ m_options.sourceFilePaths = { "a.sol" }

\* The specifier parse accepts when nothing before it claims its name.
AcceptableSpecifier(lib) ==
    /\ LibrarySeparator(lib) # 0
    /\ RFind(lib, "=") = Find(lib, "=")
    /\ WellFormedAddress(SpecifierAddress(lib))

\* The first k supplied specifiers are acceptable and name k libraries.
AcceptablePrefix(k) ==
    /\ \A j \in 1..k : AcceptableSpecifier(SuppliedSpecifiers[j])
    /\ \A i, j \in 1..k :
          SpecifierName(SuppliedSpecifiers[i]) = SpecifierName(SuppliedSpecifiers[j]) => i = j

\* The entry an acceptable specifier inserts.
SpecifierEntry(lib) ==
    [ name |-> SpecifierName(lib), address |-> AddressValue(SpecifierAddress(lib)) ]

\* C18 (as claimed): when parse returns failure, the options hold no field that
\* the failed run wrote: they are the options of a parser that has not run.
C18_NothingWrittenOnFailure ==
    result = "failure" => m_options = DefaultOptions

\* C18 (amended): when parse returns failure, the options keep what the run wrote
\* before the failing check: inputMode is Assembler after a failure in the
\* assembler block, combinedJsonRequests is present after a failure that follows
\* the decoding of --combined-json, and libraries holds the entries of the
\* specifiers that precede the rejected one.
C18_FailureKeepsWrites ==
    result = "failure" =>
        /\ ReturnedAt("assembler") => m_options.inputMode = "Assembler"
        /\ (StepIndex(pc) > StepIndex("combinedJson") /\ Supplied(g_strCombinedJson))
              => m_options.combinedJsonRequests # <<>>
        /\ StepIndex(pc) >= StepIndex("libraries") =>
              \A k \in 1..Len(SuppliedSpecifiers) :
                  AcceptablePrefix(k) => SpecifierEntry(SuppliedSpecifiers[k]) \in m_options.libraries

\* parse has failed on the third specifier of one --libraries argument, a second
\* address for L, and libraries holds the entries of the first two.
C18_Witness ==
    /\ result = "failure"
    /\ ReturnedAt("libraries")
    /\ Len(SuppliedSpecifiers) = 3
    /\ AcceptablePrefix(2)
    /\ m_options.libraries =
          { SpecifierEntry(SuppliedSpecifiers[1]), SpecifierEntry(SuppliedSpecifiers[2]) }

\* The trimmed name of a supplied specifier with a separator is empty.
EmptyNameSupplied ==
    \E k \in 1..Len(SuppliedSpecifiers) :
        /\ LibrarySeparator(SuppliedSpecifiers[k]) # 0
        /\ SpecifierName(SuppliedSpecifiers[k]) = ""

\* C19: no entry of libraries has the empty name, and a command line with a
\* specifier of empty name fails in the library step when that step runs.
C19_EmptyNameRejected ==
    /\ \A e \in m_options.libraries : e.name # ""
    /\ (Acted("libraries") /\ EmptyNameSupplied)
          => (ReturnedAt("libraries") /\ result = "failure")

\* The positions of character c in a specifier.
PositionsOf(lib, c) == { i \in 1..Len(lib) : CharAt(lib, i) = c }

\* The largest element of a non-empty set of positions.
LastOf(positions) == CHOOSE i \in positions : \A j \in positions : j <= i

\* C20: of the first specifier parse reads, the separator is the last '=' when
\* there is an '=' and the last ':' otherwise. Without '=' and ':' parse fails with
\* the separator-missing line, with two or more '=' it fails with the
\* only-one-equal-sign line, and otherwise neither line is written whatever the
\* number of ':': the name is the trimmed text before the separator and the
\* address the trimmed text after it, so the entry of that name and address is
\* inserted when the address is well formed, and parse fails in the library step
\* on the address when it is not.
C20_Separator ==
    (Len(SuppliedSpecifiers) > 0 /\ FirstLibraryArgumentRead) =>
        LET lib == SuppliedSpecifiers[1]
            equals == PositionsOf(lib, "=")
            colons == PositionsOf(lib, ":")
            separator == IF equals # {} THEN LastOf(equals) ELSE LastOf(colons)
            name == Trim(SubSeq(lib, 1, separator - 1))
            address == Trim(SubSeq(lib, separator + 1, Len(lib)))
            missing == "Equal sign separator missing in library address specifier \""
                          \o lib \o "\""
            onlyOne == "Only one equal sign \"=\" is allowed in the address string \""
                          \o lib \o "\"."
        IN  IF equals = {} /\ colons = {}
            THEN ReturnedAt("libraries") /\ result = "failure" /\ m_serr = << missing >>
            ELSE IF Cardinality(equals) > 1
            THEN ReturnedAt("libraries") /\ result = "failure" /\ m_serr = << onlyOne >>
            ELSE /\ \A i \in 1..Len(m_serr) : m_serr[i] \notin { missing, onlyOne }
                 /\ IF WellFormedAddress(address)
                    THEN [ name |-> name, address |-> AddressValue(address) ]
                            \in m_options.libraries
                    ELSE /\ ReturnedAt("libraries")
                         /\ result = "failure"
                         /\ m_options.libraries = {}

\* A successful parse of a specifier with two ':' and no '=': the name is what
\* precedes the last ':'.
C20_Witness ==
    /\ result = "success"
    /\ cmdline.val[g_strLibraries] = << "a:b:" \o Address1 >>
    /\ m_options.libraries =
          { [ name |-> "a:b", address |-> AddressValue(Address1) ] }

\* The language lines 980-1040 resolve from the command line: that of the mode
\* option, strict assembly translated for the Ewasm machine, and the language a
\* dialect forces.
SuppliedLanguage ==
    IF ValueOf(g_strYulDialect) = << g_strEVM >> THEN "StrictAssembly"
    ELSE IF ValueOf(g_strYulDialect) = << g_strEwasm >> THEN "Ewasm"
    ELSE IF Supplied(g_strYul) THEN "Yul"
    ELSE IF Supplied(g_strStrictAssembly)
    THEN (IF ValueOf(g_strMachine) = << g_strEwasm >> THEN "Ewasm" ELSE "StrictAssembly")
    ELSE "Assembly"

\* C21: a successful parse in assembler mode with target machine Ewasm has the
\* input language StrictAssembly or Ewasm, and when the assembler block runs on a
\* command line with --machine ewasm whose resolved language is Assembly or Yul,
\* parse fails in that block.
C21_EwasmLanguage ==
    /\ (result = "success" /\ m_options.inputMode = "Assembler"
            /\ m_options.targetMachine = "Ewasm")
          => m_options.inputAssemblyLanguage \in { "StrictAssembly", "Ewasm" }
    /\ (Acted("assembler") /\ AssemblerModeSupplied
            /\ ValueOf(g_strMachine) = << g_strEwasm >>
            /\ SuppliedLanguage \in { "Assembly", "Yul" })
          => (ReturnedAt("assembler") /\ result = "failure")

\* --yul --machine ewasm alone has failed in the assembler block with the language
\* Yul and the machine Ewasm resolved.
C21_Witness ==
    /\ ReturnedAt("assembler")
    /\ result = "failure"
    /\ OnlyOptions({ g_strYul, g_strMachine })
    /\ m_options.targetMachine = "Ewasm"
    /\ m_options.inputAssemblyLanguage = "Yul"
    /\ m_serr = << "The selected input language is not directly supported when targeting the Ewasm machine "
                    \o "and automatic translation is not available." >>

\* The five options C22 is about that are on the command line, in the order of the
\* list of lines 956-963.
SuppliedNonAssemblyOptions ==
    SelectSeq(<< "output-dir", "gas", "combined-json", "optimize-yul", "no-optimize-yul" >>,
              LAMBDA name : Supplied(name))

\* One of the two Yul optimizer toggles is on the command line.
YulToggleSupplied == Supplied("optimize-yul") \/ Supplied("no-optimize-yul")

StraySupplied ==
    /\ Supplied("yul-dialect") \/ Supplied("machine")
    /\ ~Supplied("assemble") /\ ~Supplied("strict-assembly") /\ ~Supplied("yul")

\* The diagnostic of lines 1064-1065.
StrayDiagnostic == "--yul-dialect and --machine are only valid in assembly mode."

\* C23 (as claimed): in every mode, --standard-json included, a command line with
\* --yul-dialect or --machine and no assembler option that gets past the mode
\* check ends in failure, with the only-valid-in-assembly-mode diagnostic unless an
\* earlier check has failed.
C23_StrayFailsInEveryMode ==
    (Done /\ StraySupplied /\ Acted("standardJson")) =>
        /\ result = "failure"
        /\ ReturnedAt("strayOptions") => m_serr = << StrayDiagnostic >>

\* C23 (amended): without --standard-json, a command line with --yul-dialect or
\* --machine and no assembler option that gets past the mode check ends in
\* failure, and when the check of line 1062 runs on it, --link and --import-ast
\* included, parse fails there with the only-valid-in-assembly-mode diagnostic.
\* With --standard-json parse returns in the standard-json block and the
\* diagnostic is never written.
C23_StrayFailsOutsideStandardJson ==
    /\ (Done /\ StraySupplied /\ Acted("standardJson") /\ ~Supplied("standard-json"))
          => result = "failure"
    /\ (StraySupplied /\ Acted("strayOptions")) =>
          /\ ReturnedAt("strayOptions")
          /\ result = "failure"
          /\ m_serr = << StrayDiagnostic >>
    /\ (StraySupplied /\ Supplied("standard-json") /\ Acted("standardJson")) =>
          /\ ReturnedAt("standardJson")
          /\ \A i \in 1..Len(m_serr) : m_serr[i] # StrayDiagnostic

\* --standard-json with --machine ewasm has returned success.
C23_Witness ==
    /\ ReturnedAt("standardJson")
    /\ result = "success"
    /\ Supplied("standard-json")
    /\ ValueOf(g_strMachine) = << g_strEwasm >>
    /\ m_options.inputMode = "StandardJson"
    /\ m_serr = <<>>

\* --link is the only mode option, the EVM version check has passed, and neither
\* --machine nor --yul-dialect is on the command line.
LinkValidated ==
    /\ Supplied("link")
    /\ ModesSupplied = 1
    /\ StepIndex(pc) > StepIndex("evmVersion")
    /\ ~Supplied("machine")
    /\ ~Supplied("yul-dialect")

\* C24: with --link the only mode option, no --machine and no --yul-dialect, once
\* the EVM version is validated parse does not fail: it returns success in the
\* linker block with inputMode Linker and the entries of all supplied specifiers in
\* libraries, and the metadata hash, the model-checker settings, optimize,
\* noOptimizeYul, yulOptimiserSteps and errorRecovery are as constructed, whatever
\* the command line gives for them.
C24_LinkerReturns ==
    LinkValidated =>
        /\ result # "failure"
        /\ Done =>
              /\ ReturnedAt("linker")
              /\ result = "success"
              /\ m_options.inputMode = "Linker"
              /\ m_options.libraries =
                    { SpecifierEntry(SuppliedSpecifiers[k]) : k \in 1..Len(SuppliedSpecifiers) }
              /\ m_options.metadataHash = "IPFS"
              /\ m_options.modelCheckerSettings =
                    [ contracts |-> "default", engine |-> "none", targets |-> "default",
                      timeout |-> <<>> ]
              /\ ~m_options.initializeModelChecker
              /\ ~m_options.optimize
              /\ ~m_options.noOptimizeYul
              /\ m_options.yulOptimiserSteps = <<>>
              /\ ~m_options.errorRecovery

\* --link with a metadata hash and a step sequence the compiler branch rejects,
\* and with --error-recovery and --no-optimize-yul, has returned success.
C24_Witness ==
    /\ ReturnedAt("linker")
    /\ result = "success"
    /\ ValueOf(g_strMetadataHash) = << "md5" >>
    /\ ValueOf(g_strYulOptimizations) = << "1" >>
    /\ Supplied("error-recovery")
    /\ Supplied("no-optimize-yul")
    /\ m_options.inputMode = "Linker"
    /\ m_options.metadataHash = "IPFS"
    /\ ~m_options.errorRecovery

\* C25: when parse returns success from the compiler branch, with --import-ast
\* inputMode is CompilerWithASTImport and errorRecovery is false, also with
\* --error-recovery on the command line; without --import-ast inputMode is Compiler
\* and errorRecovery is true exactly when --error-recovery is supplied. In both
\* cases inputMode is one of the two modes the assertion of line 1171 names.
C25_ImportAstSkipsRecovery ==
    (ReturnedAt("compiler") /\ result = "success") =>
        /\ m_options.inputMode \in { "Compiler", "CompilerWithASTImport" }
        /\ IF Supplied("import-ast")
           THEN /\ m_options.inputMode = "CompilerWithASTImport"
                /\ ~m_options.errorRecovery
           ELSE /\ m_options.inputMode = "Compiler"
                /\ m_options.errorRecovery <=> Supplied("error-recovery")

\* --import-ast with --error-recovery has returned success with errorRecovery false.
C25_Witness ==
    /\ ReturnedAt("compiler")
    /\ result = "success"
    /\ Supplied("import-ast")
    /\ Supplied("error-recovery")
    /\ m_options.inputMode = "CompilerWithASTImport"
    /\ ~m_options.errorRecovery

\* C26: m_hasOutput, false when parse starts, is true exactly when something has
\* been written to serr() or sout(), and whenever parse has returned failure it is
\* true: a diagnostic is on serr(), or, for the return of the help block, the help
\* text is on sout(). This covers the failures of parseCombinedJsonOption,
\* parseInputPathsAndRemappings and parseLibraryOption, which return in the blocks
\* that call them.
C26_NoSilentFailure ==
    /\ m_hasOutput <=> (m_serr # <<>> \/ m_sout # <<>>)
    /\ result = "failure" =>
          /\ m_hasOutput
          /\ IF ReturnedAt("help") THEN m_sout = << HelpText >> ELSE m_serr # <<>>

\* parse has failed inside parseInputPathsAndRemappings with its one diagnostic.
C26_Witness ==
    /\ ReturnedAt("inputPaths")
    /\ result = "failure"
    /\ m_hasOutput
    /\ m_serr = << "Invalid remapping: \"=x\"." >>
    /\ m_sout = <<>>

====
